---- MODULE Spec2Model ----
(***************************************************************************)
(* A model of the trace-discovery code of phoenix:                         *)
(*   discovery/features.py, badness.py, clustering.py, slicing.py,         *)
(*   discovery/pipeline.py (IssueDiscoveryPipeline.run) and                *)
(*   server/api/helpers/discovery.py (run_trace_discovery).                *)
(*                                                                         *)
(* Floats are modelled as exact rationals [n, d] (d > 0, lowest terms);    *)
(* d = 0 stands for Python's None.  A span table is a sequence of span     *)
(* rows; the cell value "nan" stands for a pandas NaN cell.                *)
(***************************************************************************)
EXTENDS Integers, Sequences, FiniteSets, TLC

VARIABLES
    entry,            \* "helper" (run_trace_discovery) or "direct" (run_discovery)
    pc,               \* position of the invocation
    cfg,              \* the DiscoveryConfig of the pipeline
    spans_df,         \* run(): the fetched span table
    trace_ids,        \* run(): unique trace ids, truncated to max_traces
    annotations_df,   \* run(): the annotations table, or NoAnnotations
    features,         \* run(): list of TraceFeatures
    badness_scores,   \* run(): list of BadnessScore, parallel to features
    clusters,         \* run(): list of ClusterResult
    slices,           \* run(): list of Slice returned by rank_slices
    report,           \* run(): <<the DiscoveryReport>>, or <<>> before it is built
    exc,              \* the exception in flight or that ended the call, NoExc if none
    stages,           \* the pipeline stages that have run, in order
    io,               \* what the collaborators did: [spans_raised, annotations_raised, embed, embed_failed]
    embedding_cache,  \* features._embedding_cache: cache key -> vector
    session,          \* the AsyncSession: pending (uncommitted) rows of this invocation
    prev,             \* <<what an earlier run() over the same batch gave>>, or <<>>
    call,             \* <<a function called on its own: its arguments and result>>, or <<>>
    db,               \* the committed rows of the three discovery tables
    ret,              \* <<the TraceDiscoveryRun returned to the caller>>, or <<>>
    clock             \* datetime.now(): a logical clock

vars == <<entry, pc, cfg, spans_df, trace_ids, annotations_df, features,
          badness_scores, clusters, slices, report, exc, stages, io,
          embedding_cache, session, db, ret, clock, prev, call>>

-----------------------------------------------------------------------------
(* Bounds of the model *)

\* Longest trace-store table offered to a direct pipeline run, in traces.
MaxBatch == 3
\* Embedding-provider failures can hit any of the first MaxEmbedFail calls.
MaxEmbedFail == 1
\* Largest cluster label the clustering library hands out.
MaxLabel == 0
\* members of a cluster handed to _select_representatives on its own
MaxMembers == 6
\* columns of its matrix X, and the largest entry of X
Columns == 2
MaxCoord == 1
\* significant bits of a Python float when its rounding is modelled (53 in
\* the program), and how far below and above 2^0 the binary exponents of
\* the modelled values reach
MantissaBits == 4
ExpBelow == 14
ExpAbove == 6
\* embed_text calls made one after another
MaxCalls == 3
\* the batch sizes handed to cluster_traces on its own, and the inertias
\* KMeans can report there
MaxSamples == 31
\* the run_trace_discovery invocations in flight for one project
MaxInvocations == 2
\* the ticks of one day on the clock that stamps the spans
Day == 100
MaxInertia == 2

(* Program constants *)

\* helpers/discovery.py: DiscoveryConfig(min_traces=20, max_traces=5000)
HelperMinTraces == 20
HelperMaxTraces == 5000
\* pipeline.py DiscoveryConfig defaults
DefaultMinClusterSize == 10
DefaultMinSliceSize == 10
DefaultMinTraces == 50
DefaultMaxTraces == 10000
DefaultMaxSliceDepth == 2
\* pipeline.py: top_slices=slices[:20]; helpers/discovery.py: top_slices[:20]
TopSlices == 20
\* features.py: np.zeros(1536)
ZeroVectorDim == 1536
\* badness.py: default p95 latency, and the cap of the error-count signal
DefaultP95 == 30000
ErrorCap == 3
\* clustering.py: _select_representatives(..., n=5)
NumExamples == 5
\* helpers/discovery.py: slice_result.trace_ids[:10]
SampleIds == 10

-----------------------------------------------------------------------------
(* Exact rational arithmetic standing for Python floats *)

Abs(x) == IF x < 0 THEN -x ELSE x

RECURSIVE Gcd(_, _)
Gcd(a, b) == IF b = 0 THEN a ELSE Gcd(b, a % b)

Q(n, d) ==
    LET g == Gcd(Abs(n), Abs(d))
        s == IF d < 0 THEN -1 ELSE 1
    IN  [n |-> (s * n) \div g, d |-> (s * d) \div g]

NoneQ == [n |-> 0, d |-> 0]
IsNone(q) == q.d = 0

QInt(i) == [n |-> i, d |-> 1]
QAdd(a, b) == Q(a.n * b.d + b.n * a.d, a.d * b.d)
QSub(a, b) == Q(a.n * b.d - b.n * a.d, a.d * b.d)
QMul(a, b) == Q(a.n * b.n, a.d * b.d)
QDiv(a, b) == Q(a.n * b.d, a.d * b.n)
QLt(a, b) == a.n * b.d < b.n * a.d
QLe(a, b) == a.n * b.d <= b.n * a.d
QMin(a, b) == IF QLt(b, a) THEN b ELSE a

Half == [n |-> 1, d |-> 2]
QZero == [n |-> 0, d |-> 1]
QOne == [n |-> 1, d |-> 1]

-----------------------------------------------------------------------------
(* Lists *)

Range(s) == {s[i] : i \in DOMAIN s}

\* the list with the elements f[1], ..., f[n], as a tuple
List(f) == f \o <<>>

\* sum(s[lo..hi]) over rationals
RECURSIVE QSumRange(_, _, _)
QSumRange(s, lo, hi) ==
    IF lo > hi THEN QZero
    ELSE IF lo = hi THEN s[lo]
    ELSE QAdd(QSumRange(s, lo, (lo + hi) \div 2),
              QSumRange(s, (lo + hi) \div 2 + 1, hi))
QSum(s) == QSumRange(List(s), 1, Len(s))

\* the concatenation of the lists ss[lo..hi]
RECURSIVE FlattenRange(_, _, _)
FlattenRange(ss, lo, hi) ==
    IF lo > hi THEN <<>>
    ELSE IF lo = hi THEN ss[lo]
    ELSE FlattenRange(ss, lo, (lo + hi) \div 2)
         \o FlattenRange(ss, (lo + hi) \div 2 + 1, hi)
Flatten(ss) == FlattenRange(List(ss), 1, Len(ss))

\* s[:k]
Prefix(s, k) == SubSeq(s, 1, IF Len(s) < k THEN Len(s) ELSE k)

\* pandas unique() / dict insertion order: first occurrences, in order
Unique(s) ==
    LET firsts == SelectSeq([i \in 1..Len(s) |-> i],
                            LAMBDA i : \A j \in 1..(i - 1) : s[j] # s[i])
    IN  List([k \in 1..Len(firsts) |-> s[firsts[k]]])

-----------------------------------------------------------------------------
(* Strings: Python's str operations used by features.py *)

LowerChar(c) ==
    CASE c = "A" -> "a" [] c = "B" -> "b" [] c = "C" -> "c" [] c = "D" -> "d"
      [] c = "E" -> "e" [] c = "F" -> "f" [] c = "G" -> "g" [] c = "H" -> "h"
      [] c = "I" -> "i" [] c = "J" -> "j" [] c = "K" -> "k" [] c = "L" -> "l"
      [] c = "M" -> "m" [] c = "N" -> "n" [] c = "O" -> "o" [] c = "P" -> "p"
      [] c = "Q" -> "q" [] c = "R" -> "r" [] c = "S" -> "s" [] c = "T" -> "t"
      [] c = "U" -> "u" [] c = "V" -> "v" [] c = "W" -> "w" [] c = "X" -> "x"
      [] c = "Y" -> "y" [] c = "Z" -> "z" [] OTHER -> c

\* str.lower(), character by character
RECURSIVE Lower(_)
Lower(s) ==
    IF Len(s) = 0 THEN ""
    ELSE IF Len(s) = 1 THEN LowerChar(s)
    ELSE Lower(SubSeq(s, 1, Len(s) \div 2))
         \o Lower(SubSeq(s, Len(s) \div 2 + 1, Len(s)))

\* pat in s
Contains(s, pat) ==
    \E i \in 1..(Len(s) - Len(pat) + 1) : SubSeq(s, i, i + Len(pat) - 1) = pat

\* index of the first occurrence of pat in s, 0 if none
Find(s, pat) ==
    IF Contains(s, pat)
    THEN CHOOSE i \in 1..(Len(s) - Len(pat) + 1) :
            /\ SubSeq(s, i, i + Len(pat) - 1) = pat
            /\ \A j \in 1..(i - 1) : SubSeq(s, j, j + Len(pat) - 1) # pat
    ELSE 0

\* str.contains(pat, case=False) for a literal pattern
ContainsCI(s, pat) == Contains(Lower(s), pat)

HexChars == {"a", "b", "c", "d", "e", "f", "0", "1", "2", "3", "4", "5", "6", "7", "8", "9"}

\* re.search(r'[a-f0-9]{8}-[a-f0-9]{4}', s)
HasUuid(s) ==
    \E i \in 1..(Len(s) - 12) :
        /\ \A k \in 0..7 : SubSeq(s, i + k, i + k) \in HexChars
        /\ SubSeq(s, i + 8, i + 8) = "-"
        /\ \A k \in 9..12 : SubSeq(s, i + k, i + k) \in HexChars

\* str(v)[:50] + "..." if len(str(v)) > 50 else str(v)
Truncate50(s) == IF Len(s) > 50 THEN SubSeq(s, 1, 50) \o "..." ELSE s

\* json.loads(crew_inputs) followed by .get("question", .get("topic", .get("task", "")));
\* "" when the text is no JSON object or holds none of the keys.
CrewIntent(ci) ==
    CASE ci = "{\"question\": \"refund status\"}" -> "refund status"
      [] ci = "{\"topic\": \"pricing\"}" -> "pricing"
      [] OTHER -> ""

RECURSIVE JoinComma(_)
JoinComma(ss) ==
    IF ss = <<>> THEN ""
    ELSE IF Len(ss) = 1 THEN ss[1]
    ELSE ss[1] \o "," \o JoinComma(Tail(ss))

-----------------------------------------------------------------------------
(* Sorting: list.sort(key=..., reverse=True) is stable *)

\* the position of element i after a stable descending sort: behind every
\* element with a larger key and every earlier element with an equal key
RankDesc(keys, i) ==
    1 + Cardinality({j \in 1..Len(keys) :
                        \/ QLt(keys[i], keys[j])
                        \/ j < i /\ keys[j] = keys[i]})

\* xs sorted by keys (parallel list of rationals), descending, stable
SortDesc(xs, keys) ==
    LET items == List(xs)
        ks == List(keys)
        rank == List([i \in 1..Len(items) |-> RankDesc(ks, i)])
    IN  List([p \in 1..Len(items) |->
                 items[CHOOSE i \in 1..Len(items) : rank[i] = p]])

\* xs sorted by integer keys, ascending
SortAsc(xs, ikeys) == SortDesc(xs, [i \in 1..Len(xs) |-> QInt(-ikeys[i])])

-----------------------------------------------------------------------------
(* The trace store: span tables and annotation tables                       *)
(*                                                                          *)
(* A table is [cols, blocks]: the columns it has and, per block, a trace    *)
(* shape and how many traces of that shape follow each other.  Rows(t) is   *)
(* the table itself: its span rows in order.                                *)

\* trace id of a row whose context.trace_id cell is NaN
NaNId == 0

BaseRow ==
    [trace_id |-> NaNId, span_id |-> 0, parent_null |-> FALSE, name |-> "step",
     span_kind |-> "CHAIN", status_code |-> "OK", start_time |-> 0, end_time |-> 0,
     latency_ms |-> 0, input_value |-> "nan", output_value |-> "nan",
     llm_input_messages |-> "nan", llm_output_messages |-> "nan",
     crew_inputs |-> "nan", obs_intent |-> "nan", obs_route |-> "nan",
     model_name |-> "nan", provider |-> "nan"]

\* The span rows of one trace of each shape (ids are filled in by Rows).
Shape(tpl) ==
    CASE tpl = "chat" ->
           << [BaseRow EXCEPT !.parent_null = TRUE, !.name = "agent_run",
                              !.end_time = 100, !.input_value = "hello there",
                              !.output_value = "hi"],
              [BaseRow EXCEPT !.name = "ChatOpenAI", !.span_kind = "LLM",
                              !.start_time = 10, !.end_time = 70,
                              !.model_name = "gpt-4o", !.provider = "openai"] >>
      [] tpl = "research" ->
           << [BaseRow EXCEPT !.parent_null = TRUE,
                              !.name = "Crew_0a1b2c3d-4e5f-4a6b.kickoff",
                              !.status_code = "ERROR", !.end_time = 400,
                              !.crew_inputs = "{\"question\": \"refund status\"}"],
              [BaseRow EXCEPT !.name = "search_tool", !.span_kind = "TOOL",
                              !.status_code = "ERROR", !.start_time = 20,
                              !.end_time = 300] >>
      [] tpl = "agent" ->
           << [BaseRow EXCEPT !.name = "Researcher._execute_core",
                              !.span_kind = "AGENT", !.end_time = 50,
                              !.model_name = "claude-3", !.provider = "anthropic"] >>
      [] tpl = "agent_err" ->
           << [BaseRow EXCEPT !.name = "Researcher._execute_core",
                              !.span_kind = "AGENT", !.status_code = "ERROR",
                              !.end_time = 50,
                              !.model_name = "claude-3", !.provider = "anthropic"],
              [BaseRow EXCEPT !.name = "lookup_tool", !.span_kind = "TOOL",
                              !.status_code = "ERROR", !.start_time = 5,
                              !.end_time = 40] >>
      [] tpl = "chat_err" ->
           << [BaseRow EXCEPT !.parent_null = TRUE, !.name = "agent_run",
                              !.status_code = "ERROR", !.end_time = 100,
                              !.input_value = "hello there",
                              !.output_value = "hi"],
              [BaseRow EXCEPT !.name = "ChatOpenAI", !.span_kind = "LLM",
                              !.start_time = 10, !.end_time = 70,
                              !.model_name = "gpt-4o", !.provider = "openai"],
              [BaseRow EXCEPT !.name = "lookup_tool", !.span_kind = "TOOL",
                              !.status_code = "ERROR", !.start_time = 70,
                              !.end_time = 90] >>
      [] tpl = "blank" ->
           << [BaseRow EXCEPT !.parent_null = TRUE, !.name = "handle_request",
                              !.span_kind = "LLM", !.end_time = 30,
                              !.input_value = "ping", !.output_value = "pong",
                              !.model_name = "", !.provider = ""] >>
      [] tpl = "orphan" ->
           << [BaseRow EXCEPT !.parent_null = TRUE, !.name = "lost"] >>

Shapes == {"chat", "research", "agent", "orphan"}

\* the trace id the store gave the k-th trace of the table (NaN for an orphan)
TraceIdOf(tpl, k) == IF tpl = "orphan" THEN NaNId ELSE k

RowsOfTrace(tpl, k) ==
    LET sh == Shape(tpl)
    IN  [j \in 1..Len(sh) |->
            [sh[j] EXCEPT !.trace_id = TraceIdOf(tpl, k), !.span_id = 10 * k + j]]

\* the shapes of the traces of the table, one entry per trace
RECURSIVE TraceShapes(_)
TraceShapes(blocks) ==
    IF blocks = <<>> THEN <<>>
    ELSE [i \in 1..Head(blocks).n |-> Head(blocks).tpl] \o TraceShapes(Tail(blocks))

Rows(t) ==
    LET sh == TraceShapes(t.blocks)
    IN  Flatten([k \in 1..Len(sh) |-> RowsOfTrace(sh[k], k)])

AllCols ==
    {"trace_id", "span_id", "parent_id", "name", "span_kind", "status_code",
     "start_time", "end_time", "input_value", "output_value",
     "llm_input_messages", "llm_output_messages", "crew_inputs",
     "model_name", "provider"}

EmptyTable == [cols |-> {}, blocks |-> <<>>]

\* root_span.get(col, default)
Get(t, row, col, default) == IF col \in t.cols THEN row[col] ELSE default

\* An annotations table: None (absent) or a list of [span_id, name, score] rows.
NoAnnotations == [present |-> FALSE, rows |-> <<>>]

-----------------------------------------------------------------------------
(* features.py *)

NoEmbedding == [dim |-> 0, src |-> "None"]

\* get_unique_trace_ids
get_unique_trace_ids(t) ==
    LET rows == Rows(t)
    IN  IF "trace_id" \in t.cols
        THEN Unique([i \in 1..Len(rows) |-> rows[i].trace_id])
        ELSE <<>>

\* compute_tool_ngrams: the n-gram tokens of a tool sequence (unigrams, bigrams)
compute_tool_ngrams(tool_sequence) ==
    Range(tool_sequence) \cup
    {tool_sequence[i] \o "->" \o tool_sequence[i + 1] : i \in 1..(Len(tool_sequence) - 1)}

IsToolSpan(r) == r.span_kind = "TOOL" \/ ContainsCI(r.name, "tool")

IsLLMSpan(r) ==
    \/ r.span_kind = "LLM"
    \/ \E p \in {"llm", "openai", "anthropic", "chat"} : ContainsCI(r.name, p)

IsAgentSpan(r) == ContainsCI(r.name, "._execute")

\* the intent cascade of extract_features_from_spans (lines 154-186)
DeriveIntent(t, root) ==
    LET crew_inputs == Get(t, root, "crew_inputs", "")
        i1 == IF crew_inputs # "" /\ crew_inputs # "nan"
              THEN Truncate50(CrewIntent(crew_inputs)) ELSE ""
        input_val == Get(t, root, "input_value", "")
        i2 == IF i1 # "" THEN i1
              ELSE IF input_val # "" /\ input_val # "nan" THEN Truncate50(input_val)
              ELSE ""
        i3 == IF i2 # "" THEN i2 ELSE Get(t, root, "obs_intent", "")
        span_name == Get(t, root, "name", "unknown")
    IN  IF i3 = "" \/ i3 = "nan"
        THEN IF ~HasUuid(span_name) THEN span_name ELSE "crew_execution"
        ELSE i3

\* a route cascade that ends in "unknown" instead of the root span's kind
DeriveRouteUnknown(t, root, trace_spans, tool_spans) ==
    LET route == Get(t, root, "obs_route", "")
        agent_spans == SelectSeq(trace_spans, IsAgentSpan)
        agent_name == agent_spans[1].name
        tool_names == Unique([i \in 1..Len(tool_spans) |-> tool_spans[i].name])
    IN  IF route = "" \/ route = "nan"
        THEN IF Len(agent_spans) > 0
             THEN IF Contains(agent_name, "._")
                  THEN SubSeq(agent_name, 1, Find(agent_name, "._") - 1)
                  ELSE agent_name
             ELSE IF Len(tool_spans) > 0
                  THEN "tools:" \o JoinComma(Prefix(tool_names, 3))
                  ELSE "unknown"
        ELSE route

\* the route cascade (lines 188-203)
DeriveRoute(t, root, trace_spans, tool_spans) ==
    LET route == Get(t, root, "obs_route", "")
        agent_spans == SelectSeq(trace_spans, IsAgentSpan)
        agent_name == agent_spans[1].name
        tool_names == Unique([i \in 1..Len(tool_spans) |-> tool_spans[i].name])
    IN  IF route = "" \/ route = "nan"
        THEN IF Len(agent_spans) > 0
             THEN IF Contains(agent_name, "._")
                  THEN SubSeq(agent_name, 1, Find(agent_name, "._") - 1)
                  ELSE agent_name
             ELSE IF Len(tool_spans) > 0
                  THEN "tools:" \o JoinComma(Prefix(tool_names, 3))
                  ELSE Get(t, root, "span_kind", "unknown")
        ELSE route

\* first non-null cell of a column over the trace's spans, "unknown" if none
FirstValue(t, trace_spans, col) ==
    LET vals == SelectSeq(trace_spans, LAMBDA r : r[col] # "nan")
    IN  IF col \in t.cols /\ Len(vals) > 0 THEN vals[1][col] ELSE "unknown"

\* the score of the first annotation of the trace whose name contains `word`
EvalScore(ann, trace_spans, word) ==
    LET ids == {trace_spans[i].span_id : i \in 1..Len(trace_spans)}
        rows == SelectSeq(ann.rows,
                          LAMBDA a : a.span_id \in ids /\ ContainsCI(a.name, word))
    IN  IF ann.present /\ Len(ann.rows) > 0 /\ Len(rows) > 0
        THEN rows[1].score ELSE NoneQ

\* extract_features_from_spans: <<>> for None, else a one-element list
extract_features_from_spans(t, trace_id, ann) ==
    LET trace_spans == SelectSeq(Rows(t),
                           LAMBDA r : trace_id # NaNId /\ r.trace_id = trace_id)
        root_spans == SelectSeq(trace_spans, LAMBDA r : r.parent_null)
        root_span == IF Len(root_spans) = 0 THEN trace_spans[1] ELSE root_spans[1]
        in0 == Get(t, root_span, "input_value", "")
        out0 == Get(t, root_span, "output_value", "")
        tool_spans == SelectSeq(trace_spans, IsToolSpan)
        llm_spans == SelectSeq(trace_spans, IsLLMSpan)
        tool_sequence ==
            LET sorted == SortAsc(tool_spans,
                                  [i \in 1..Len(tool_spans) |-> tool_spans[i].start_time])
            IN  [i \in 1..Len(tool_spans) |-> sorted[i].name]
        error_tools == SelectSeq(tool_spans, LAMBDA r : r.status_code = "ERROR")
        provider0 == FirstValue(t, trace_spans, "provider")
        model == FirstValue(t, trace_spans, "model_name")
    IN  IF Len(trace_spans) = 0 THEN <<>>
        ELSE << [trace_id |-> trace_id,
                 input_text |-> IF in0 = ""
                                THEN Get(t, root_span, "llm_input_messages", "")
                                ELSE in0,
                 output_text |-> IF out0 = ""
                                 THEN Get(t, root_span, "llm_output_messages", "")
                                 ELSE out0,
                 text_embedding |-> NoEmbedding,
                 tool_sequence |-> tool_sequence,
                 tool_ngrams |-> compute_tool_ngrams(tool_sequence),
                 tool_success_rate |->
                     IF Len(tool_spans) > 0
                     THEN QSub(QOne, Q(Len(error_tools), Len(tool_spans)))
                     ELSE QOne,
                 unique_tools_used |-> Cardinality(Range(tool_sequence)),
                 total_latency_ms |->
                     IF "latency_ms" \in t.cols THEN root_span.latency_ms
                     ELSE IF "end_time" \in t.cols /\ "start_time" \in t.cols
                          THEN root_span.end_time - root_span.start_time
                          ELSE 0,
                 llm_calls |-> Len(llm_spans),
                 tool_calls |-> Len(tool_spans),
                 error_count |->
                     Len(SelectSeq(trace_spans, LAMBDA r : r.status_code = "ERROR")),
                 intent |-> DeriveIntent(t, root_span),
                 route |-> DeriveRoute(t, root_span, trace_spans, tool_spans),
                 model |-> model,
                 provider |-> IF provider0 = "" \/ provider0 = "nan"
                              THEN "unknown" ELSE provider0,
                 prompt_version |-> IF model # "unknown" THEN model ELSE "unknown",
                 quality_score |-> EvalScore(ann, trace_spans, "quality"),
                 grounding_score |-> EvalScore(ann, trace_spans, "grounding")] >>

\* the dimension of the provider's vectors for a model; the zero vector that
\* embed_text substitutes on failure has the dimension of text-embedding-3-small
ProviderDim(model) ==
    IF model = "text-embedding-3-small" THEN ZeroVectorDim ELSE 2 * ZeroVectorDim

\* embed_text's cache key: f"{model}:{text[:500]}"
CacheKey(model, text) == model \o ":" \o Prefix(text, 500)

\* add_embeddings' text for one trace: f"{f.input_text}\n---\n{f.output_text}"
EmbedText(f) == f.input_text \o "\n---\n" \o f.output_text

\* what client.embeddings.create(model=model, input=text[:8000]) answers: a
\* vector is [dim, src], its dimension and what it embeds ("zeros" for
\* np.zeros)
Embedding(model, text) ==
    [dim |-> ProviderDim(model), src |-> model \o ":" \o Prefix(text, 8000)]

\* _embedding_cache[cache_key] = embedding
Put(cache, cache_key, embedding) ==
    [x \in DOMAIN cache \cup {cache_key} |->
        IF x = cache_key THEN embedding ELSE cache[x]]

\* an embed_text that keeps the newest vector: a successful call replaces
\* the entry of its key
CacheAfterOverwriting(text, model, cache, fails) ==
    IF fails THEN cache ELSE Put(cache, CacheKey(model, text), Embedding(model, text))

\* embed_text: the vector returned for a text, given the cache and whether
\* the provider call fails
embed_text(text, model, cache, fails) ==
    LET cache_key == CacheKey(model, text)
    IN  IF cache_key \in DOMAIN cache THEN cache[cache_key]
        ELSE IF fails THEN [dim |-> ZeroVectorDim, src |-> "zeros"]
        ELSE Embedding(model, text)

\* embed_text: the cache it leaves
CacheAfter(text, model, cache, fails) ==
    LET cache_key == CacheKey(model, text)
    IN  IF cache_key \in DOMAIN cache \/ fails THEN cache
        ELSE Put(cache, cache_key, Embedding(model, text))

\* the cache when iteration k of the loop of add_embeddings starts: every
\* earlier iteration whose provider call did not fail has left its key in
\* it (found there, or inserted by the first such iteration);
\* failing is the set of positions whose provider call fails if it is made
CacheBefore(fs, k, model, cache, failing) ==
    LET done == (1..(k - 1)) \ failing
        KeyAt(j) == CacheKey(model, EmbedText(fs[j]))
        First(x) == CHOOSE j \in done :
                        KeyAt(j) = x /\ \A i \in done : KeyAt(i) = x => j <= i
    IN  [x \in DOMAIN cache \cup {KeyAt(j) : j \in done} |->
            IF x \in DOMAIN cache THEN cache[x]
            ELSE Embedding(model, EmbedText(fs[First(x)]))]

\* add_embeddings: returns [features, cache]
\* an add_embeddings that also overwrites input_text with the embedded text
AddEmbeddingsOverwritingText(fs, model, cache, failing) ==
    [features |->
        List([k \in 1..Len(fs) |->
                 [fs[k] EXCEPT !.text_embedding =
                                   embed_text(EmbedText(fs[k]), model,
                                              CacheBefore(fs, k, model, cache, failing),
                                              k \in failing),
                               !.input_text = EmbedText(fs[k])]]),
     cache |-> CacheBefore(fs, Len(fs) + 1, model, cache, failing)]

\* add_embeddings (lines 271-281): sets f.text_embedding of each record in
\* place; embed_text fills the module's _embedding_cache
add_embeddings(fs, model, cache, failing) ==
    [features |->
        List([k \in 1..Len(fs) |->
                 [fs[k] EXCEPT !.text_embedding =
                     embed_text(EmbedText(fs[k]), model,
                                CacheBefore(fs, k, model, cache, failing),
                                k \in failing)]]),
     cache |-> CacheBefore(fs, Len(fs) + 1, model, cache, failing)]

\* build_feature_matrix(include_embedding=True): np.array over embedding rows
\* of unequal length cannot be stacked with the scalar block (ValueError)
build_feature_matrix_raises(fs) ==
    LET dims == {IF fs[i].text_embedding = NoEmbedding THEN ZeroVectorDim
                 ELSE fs[i].text_embedding.dim : i \in 1..Len(fs)}
    IN  Cardinality(dims) > 1

\* extract_features_from_spans raises KeyError: it indexes a column the
\* table lacks (lines 77, 83, 100-107, 111, 118, 149, 227)
extract_features_raises(t, trace_id, ann) ==
    LET trace_spans == SelectSeq(Rows(t),
                           LAMBDA r : trace_id # NaNId /\ r.trace_id = trace_id)
        tool_spans == SelectSeq(trace_spans, IsToolSpan)
    IN  \/ "trace_id" \notin t.cols
        \/ /\ Len(trace_spans) > 0
           /\ \/ "parent_id" \notin t.cols
              \/ "span_kind" \notin t.cols
              \/ "name" \notin t.cols
              \/ Len(tool_spans) > 0 /\ "start_time" \notin t.cols
              \/ "status_code" \notin t.cols
              \/ ann.present /\ Len(ann.rows) > 0 /\ "span_id" \notin t.cols

\* the loop of run() over the trace ids meets a call that raises
extract_raises(t, ids, ann) ==
    \E i \in 1..Len(ids) : extract_features_raises(t, ids[i], ann)

-----------------------------------------------------------------------------
(* badness.py *)

\* BadnessWeights defaults: 0.3, 0.2, 0.2, 0.1, 0.2
DEFAULT_WEIGHTS ==
    [quality_eval |-> Q(3, 10), grounding_eval |-> Q(2, 10), tool_errors |-> Q(2, 10),
     latency |-> Q(1, 10), error_count |-> Q(2, 10)]

SignalNames == <<"quality_eval", "grounding_eval", "tool_errors", "latency", "error_count">>

\* the signals of compute_badness (lines 51-77)
Signals(f, p95_latency_ms) ==
    [quality_eval |-> IF ~IsNone(f.quality_score)
                      THEN QSub(QOne, f.quality_score) ELSE Half,
     grounding_eval |-> IF ~IsNone(f.grounding_score)
                        THEN QSub(QOne, f.grounding_score) ELSE Half,
     tool_errors |-> QSub(QOne, f.tool_success_rate),
     latency |-> IF f.total_latency_ms > 0 /\ p95_latency_ms > 0
                 THEN QMin(Q(f.total_latency_ms, p95_latency_ms), QOne)
                 ELSE QZero,
     error_count |-> IF f.error_count > 0
                     THEN QMin(Q(f.error_count, ErrorCap), QOne)
                     ELSE QZero]

compute_badness(f, p95_latency_ms, weights) ==
    LET signals == Signals(f, p95_latency_ms)
        total_weight == QSum([i \in 1..Len(SignalNames) |-> weights[SignalNames[i]]])
        weighted == QSum([i \in 1..Len(SignalNames) |->
                             QMul(signals[SignalNames[i]], weights[SignalNames[i]])])
    IN  [trace_id |-> f.trace_id,
         score |-> IF QLt(QZero, total_weight) THEN QDiv(weighted, total_weight)
                   ELSE Half,
         signals |-> signals]

\* a float operation's result: the exact value rounded to the nearest number
\* of MantissaBits significant bits, ties to even
Fl(q) ==
    LET a == [n |-> Abs(q.n), d |-> q.d]
        Scaled(e) == IF e >= 0 THEN Q(a.n, a.d * 2^e) ELSE Q(a.n * 2^(-e), a.d)
        e == CHOOSE x \in (-ExpBelow)..ExpAbove :
                 /\ QLe(QInt(2^(MantissaBits - 1)), Scaled(x))
                 /\ QLt(Scaled(x), QInt(2^MantissaBits))
        r == Scaled(e)
        floor == r.n \div r.d
        twice == 2 * (r.n % r.d)
        m == IF twice < r.d THEN floor
             ELSE IF twice > r.d THEN floor + 1
             ELSE IF floor % 2 = 0 THEN floor ELSE floor + 1
        sign == IF q.n < 0 THEN -1 ELSE 1
    IN  IF q.n = 0 THEN QZero
        ELSE IF e >= 0 THEN QInt(sign * m * 2^e) ELSE Q(sign * m, 2^(-e))

\* sum(...) of floats: from 0, left to right, every addition rounded
RECURSIVE FlSum(_)
FlSum(xs) ==
    IF xs = <<>> THEN QZero
    ELSE Fl(QAdd(FlSum(SubSeq(xs, 1, Len(xs) - 1)), xs[Len(xs)]))

\* the signals as the floats they are
FlSignals(f, p95_latency_ms) ==
    LET signals == Signals(f, p95_latency_ms)
    IN  [k \in DOMAIN signals |-> Fl(signals[k])]

\* compute_badness (lines 79-86) with the rounding of every float operation
compute_badness_fl(f, p95_latency_ms, weights) ==
    LET signals == FlSignals(f, p95_latency_ms)
        total_weight == FlSum([i \in 1..Len(SignalNames) |-> weights[SignalNames[i]]])
        weighted == FlSum([i \in 1..Len(SignalNames) |->
                             Fl(QMul(signals[SignalNames[i]], weights[SignalNames[i]]))])
    IN  [trace_id |-> f.trace_id,
         score |-> IF QLt(QZero, total_weight) THEN Fl(QDiv(weighted, total_weight))
                   ELSE Half,
         signals |-> signals]

\* the p95 latency compute_badness_batch normalises with (lines 110-116)
P95Latency(fs) ==
    LET pos == SelectSeq(fs, LAMBDA f : f.total_latency_ms > 0)
        n == Len(pos)
        latencies == SortAsc([i \in 1..n |-> pos[i].total_latency_ms],
                             [i \in 1..n |-> pos[i].total_latency_ms])
        p95_idx == (n * 95) \div 100
    IN  IF n > 0 THEN latencies[(IF p95_idx < n - 1 THEN p95_idx ELSE n - 1) + 1]
        ELSE DefaultP95

\* compute_badness_batch: the dict, in insertion order
compute_badness_batch(fs, weights) ==
    [i \in 1..Len(fs) |-> compute_badness(fs[i], P95Latency(fs), weights)]

\* compute_badness_batch with the rounding of every float operation
compute_badness_batch_fl(fs, weights) ==
    [i \in 1..Len(fs) |-> compute_badness_fl(fs[i], P95Latency(fs), weights)]

\* badness_scores[tid].score
ScoreOf(scores, tid) ==
    scores[CHOOSE i \in 1..Len(scores) : scores[i].trace_id = tid].score
HasScore(scores, tid) == \E i \in 1..Len(scores) : scores[i].trace_id = tid

\* BadnessScore.is_bad
is_bad(b) == QLt(Half, b.score)

-----------------------------------------------------------------------------
(* slicing.py *)

\* itertools.combinations(attrs, depth), in its order
RECURSIVE Combinations(_, _)
Combinations(attrs, depth) ==
    IF depth = 0 THEN << <<>> >>
    ELSE IF Len(attrs) < depth THEN <<>>
    ELSE LET with == Combinations(Tail(attrs), depth - 1)
         IN  [i \in 1..Len(with) |-> <<Head(attrs)>> \o with[i]]
             \o Combinations(Tail(attrs), depth)

\* getattr(f, attr, "unknown") for every attribute of the combination
KeyOf(f, attr_combo) ==
    List([i \in 1..Len(attr_combo) |->
            IF attr_combo[i] \in DOMAIN f THEN f[attr_combo[i]] ELSE "unknown"])

\* _group_by_attributes: the groups in first-appearance order of their key
_group_by_attributes(fs, attr_combo) ==
    LET keys == Unique([i \in 1..Len(fs) |-> KeyOf(fs[i], attr_combo)])
    IN  [k \in 1..Len(keys) |->
            [key |-> keys[k],
             trace_ids |->
                 LET members == SelectSeq(fs, LAMBDA f : KeyOf(f, attr_combo) = keys[k])
                 IN  List([i \in 1..Len(members) |-> members[i].trace_id])]]

\* The p-value of scipy.stats.chi2_contingency on a 2x2 table (Yates'
\* correction), as far as rank_slices uses it: "1.0" when the statistic is 0,
\* "<0.05" when it exceeds the 5% critical value of chi-squared with one
\* degree of freedom (3.8415), ">=0.05" otherwise.  With D = |ad - bc| and
\* N = a+b+c+d the corrected statistic is N(2D - N)^2 / (4 r1 r2 c1 c2) when
\* 2D > N and 0 otherwise.
Chi2PValue(a, b, c, d) ==
    LET N == a + b + c + d
        D == Abs(a * d - b * c)
        margins == (a + b) * (c + d) * (a + c) * (b + d)
    IN  IF 2 * D <= N THEN "1.0"
        ELSE IF 25 * N * (2 * D - N) * (2 * D - N) > 96 * 4 * margins THEN "<0.05"
        ELSE ">=0.05"

\* _compute_significance
_compute_significance(slice_bad, slice_total, pop_bad, pop_total) ==
    LET slice_good == slice_total - slice_bad
        rest_bad == pop_bad - slice_bad
        rest_good == (pop_total - slice_total) - rest_bad
    IN  IF slice_total = 0 \/ pop_total = 0 THEN "1.0"
        ELSE IF rest_bad < 0 \/ rest_good < 0 THEN "1.0"
        \* chi2_contingency raises ValueError on a zero expected frequency
        ELSE IF (slice_bad + slice_good) * (rest_bad + rest_good)
                 * (slice_bad + rest_bad) * (slice_good + rest_good) = 0 THEN "1.0"
        ELSE Chi2PValue(slice_bad, slice_good, rest_bad, rest_good)

\* a significance filter that lets every slice through
AlwaysSignificant(sl) == TRUE

\* p_value < significance_threshold, for the threshold 0.05 of DiscoveryConfig
IsSignificant(sl) == sl.p_value = "<0.05"

\* the scores of the given traces that have a score
ScoresOf(scores, tids) ==
    LET have == SelectSeq(tids, LAMBDA tid : HasScore(scores, tid))
    IN  List([i \in 1..Len(have) |-> ScoreOf(scores, have[i])])

BadCount(bs) == Len(SelectSeq(bs, LAMBDA b : QLt(Half, b)))

\* a baseline whose substitute for 0 is 0.01
BaselineRateCoarse(all_badness) ==
    LET rate == Q(BadCount(all_badness), Len(all_badness))
    IN  IF rate = QZero THEN Q(1, 100) ELSE rate

\* baseline_rate of rank_slices (lines 48-52)
BaselineRate(all_badness) ==
    LET rate == Q(BadCount(all_badness), Len(all_badness))
    IN  IF rate = QZero THEN Q(1, 1000) ELSE rate

\* a lift that multiplies the two rates instead of dividing them
LiftAsProduct(slice_badness_rate, baseline_rate) ==
    QMul(slice_badness_rate, baseline_rate)

\* lift = slice_badness_rate / baseline_rate (line 80)
Lift(slice_badness_rate, baseline_rate) == QDiv(slice_badness_rate, baseline_rate)

\* the Slice built for one group (lines 67-101); <<>> when the group is skipped
SliceOfGroup(g, attr_combo, scores, all_badness, min_slice_size) ==
    LET slice_badness == ScoresOf(scores, g.trace_ids)
        slice_bad_count == BadCount(slice_badness)
        slice_badness_rate == Q(slice_bad_count, Len(slice_badness))
        baseline_rate == BaselineRate(all_badness)
    IN  IF Len(g.trace_ids) < min_slice_size \/ Len(slice_badness) = 0 THEN <<>>
        ELSE << [attrs |-> attr_combo,
                 key |-> g.key,
                 trace_ids |-> g.trace_ids,
                 size |-> Len(g.trace_ids),
                 badness_rate |-> slice_badness_rate,
                 baseline_rate |-> baseline_rate,
                 lift |-> Lift(slice_badness_rate, baseline_rate),
                 p_value |-> _compute_significance(slice_bad_count, Len(slice_badness),
                                                   BadCount(all_badness),
                                                   Len(all_badness))] >>

\* the candidate slices in generation order (lines 54-101)
Candidates(fs, scores, slice_attributes, min_slice_size, max_slice_depth) ==
    LET all_badness == ScoresOf(scores, [i \in 1..Len(fs) |-> fs[i].trace_id])
        combos == Flatten([depth \in 1..max_slice_depth |->
                              Combinations(slice_attributes, depth)])
        OfCombo(attr_combo) ==
            LET groups == _group_by_attributes(fs, attr_combo)
            IN  Flatten([k \in 1..Len(groups) |->
                    SliceOfGroup(groups[k], attr_combo, scores, all_badness,
                                 min_slice_size)])
    IN  Flatten([c \in 1..Len(combos) |-> OfCombo(combos[c])])

\* a ranking that leaves the candidate slices in the order they were built
KeepOrder(sls) == sls

\* significant_slices.sort(key=lambda s: s.lift, reverse=True): a stable sort
SortByLift(sls) == SortDesc(sls, [i \in 1..Len(sls) |-> sls[i].lift])

\* a rank_slices that returns the significant slices only, also when there
\* is none
RankSlicesWithoutFallback(fs, scores, slice_attributes, min_slice_size, max_slice_depth) ==
    LET all_badness == ScoresOf(scores, [i \in 1..Len(fs) |-> fs[i].trace_id])
        slices_ == Candidates(fs, scores, slice_attributes, min_slice_size,
                              max_slice_depth)
    IN  IF Len(all_badness) = 0 THEN <<>>
        ELSE SortByLift(SelectSeq(slices_, IsSignificant))

\* lines 25-112
rank_slices(fs, scores, slice_attributes, min_slice_size, max_slice_depth) ==
    LET all_badness == ScoresOf(scores, [i \in 1..Len(fs) |-> fs[i].trace_id])
        slices_ == Candidates(fs, scores, slice_attributes, min_slice_size,
                              max_slice_depth)
        significant == SelectSeq(slices_, IsSignificant)
    IN  IF Len(all_badness) = 0 THEN <<>>
        ELSE SortByLift(IF Len(significant) = 0 THEN slices_ ELSE significant)

-----------------------------------------------------------------------------
(* clustering.py *)

\* the row of build_feature_matrix for one trace: embedding, scalars, n-grams
FeatureRow(f) ==
    [embedding |-> IF f.text_embedding = NoEmbedding
                   THEN [dim |-> ZeroVectorDim, src |-> "zeros"]
                   ELSE f.text_embedding,
     scalars |-> <<f.total_latency_ms, f.llm_calls, f.tool_calls,
                   f.tool_success_rate.n, f.tool_success_rate.d,
                   f.error_count, f.unique_tools_used>>,
     ngrams |-> f.tool_ngrams]

\* the scalar block of build_feature_matrix (features.py lines 306-316) and
\* the number of n-gram columns it keeps (line 324)
ScalarColumns == 9
TopNgrams == 20

\* the number of columns of build_feature_matrix(features, include_embedding)
\* (features.py lines 284-334): embedding block, scalars, top n-grams
build_feature_matrix_width(fs, include_embedding) ==
    LET all_ngrams == UNION {fs[i].tool_ngrams : i \in 1..Len(fs)}
        top_ngrams == IF Cardinality(all_ngrams) < TopNgrams
                      THEN Cardinality(all_ngrams) ELSE TopNgrams
    IN  (IF include_embedding THEN FeatureRow(fs[1]).embedding.dim ELSE 0)
        + ScalarColumns + top_ngrams

\* X of cluster_traces (line 42): include_embedding is always True
ClusterMatrixWidth(fs) == build_feature_matrix_width(fs, TRUE)

\* the values _estimate_k can return for n samples (lines 87-112); the elbow
\* index depends on the inertias, so every index it can take is offered
_estimate_k(n, max_k) ==
    LET hi == IF max_k + 1 < n THEN max_k + 1 ELSE n
        len_inertias == IF hi > 2 THEN hi - 2 ELSE 0
    IN  IF n < max_k THEN {IF n \div 3 > 2 THEN n \div 3 ELSE 2}
        ELSE IF len_inertias < 3 THEN {3}
        ELSE {IF e < max_k THEN e ELSE max_k : e \in 2..(len_inertias - 1)}

\* max_k of cluster_traces: min(10, len(features) // 5)
MaxK(n) == IF n \div 5 < 10 THEN n \div 5 ELSE 10

\* the label sets the clustering library can draw from
LabelsOf(method, k) == IF method = "hdbscan" THEN -1..MaxLabel ELSE 0..(k - 1)

\* the labelings the library can return: rows of the matrix that are equal
\* get equal labels
Labelings(fs, method, k) ==
    LET rows == {FeatureRow(fs[i]) : i \in 1..Len(fs)}
    IN  {[i \in 1..Len(fs) |-> lab[FeatureRow(fs[i])]] :
            lab \in [rows -> LabelsOf(method, k)]}

\* _mode: Counter.most_common(1), the first-seen value among the most common
_mode(values) ==
    LET Count(v) == Len(SelectSeq(values, LAMBDA x : x = v))
        uniq == Unique(values)
        best == CHOOSE i \in 1..Len(uniq) :
                    /\ \A j \in 1..Len(uniq) : Count(uniq[j]) <= Count(uniq[i])
                    /\ \A j \in 1..(i - 1) : Count(uniq[j]) < Count(uniq[i])
    IN  IF values = <<>> THEN "unknown" ELSE uniq[best]

\* the squared distances np.linalg.norm(X - centroid, axis=1) orders by, each
\* times Len(X)^2 (the centroid is the mean of X's rows, lines 157-158), for
\* rows of integers: sqrt and the common factor do not change the order
Distances(X) ==
    LET m == Len(X)
        cols == DOMAIN X[1]
        RECURSIVE ColSum(_, _)
        ColSum(c, i) == IF i = 0 THEN 0 ELSE X[i][c] + ColSum(c, i - 1)
        RECURSIVE SqSum(_, _)
        SqSum(i, c) ==
            IF c = 0 THEN 0
            ELSE (m * X[i][c] - ColSum(c, m)) * (m * X[i][c] - ColSum(c, m))
                 + SqSum(i, c - 1)
    IN  List([i \in 1..m |-> SqSum(i, Len(X[1]))])

\* np.argsort(distances): the permutations that put the distances in
\* ascending order (the default sort is not stable: ties come in any order)
argsort(distances) ==
    LET m == Len(distances)
        RECURSIVE From(_)
        From(chosen) ==
            LET rest == (1..m) \ Range(chosen)
            IN  IF rest = {} THEN {chosen}
                ELSE UNION {From(Append(chosen, i)) :
                              i \in {i \in rest :
                                        \A u \in rest : distances[i] <= distances[u]}}
    IN  From(<<>>)

\* the n members taken from the head of the cluster instead of the head of
\* the argsort
FirstMembers(cluster_features, closest_indices, n) ==
    [i \in 1..(IF Len(cluster_features) < n THEN Len(cluster_features) ELSE n) |->
        cluster_features[i].trace_id]

\* _select_representatives: all members when there are at most n, else the
\* members at closest_indices, the first n indices of the argsort of the
\* distances to the centroid
_select_representatives(cluster_features, closest_indices, n) ==
    IF Len(cluster_features) <= n
    THEN [i \in 1..Len(cluster_features) |-> cluster_features[i].trace_id]
    ELSE [i \in 1..n |-> cluster_features[closest_indices[i]].trace_id]

\* the argsort of a cluster of m members whose distances are not modelled:
\* "first" when the members come in list order, "last" when reversed
ClosestIndices(closest, m) ==
    IF closest = "first" THEN [i \in 1..m |-> i] ELSE [i \in 1..m |-> m + 1 - i]

\* the orders _select_representatives can meet; with at most NumExamples
\* traces it never sorts
ArgsortOrders(n) == IF n <= NumExamples THEN {"first"} ELSE {"first", "last"}

\* a ClusterResult whose badness statistics are taken over the whole batch
\* instead of the cluster's members
ClusterOfBatchStats(fs, scores, labels, cluster_id, closest) ==
    LET idx == SelectSeq([i \in 1..Len(fs) |-> i], LAMBDA i : labels[i] = cluster_id)
        cluster_features == [j \in 1..Len(idx) |-> fs[idx[j]]]
        cluster_trace_ids == [j \in 1..Len(idx) |-> cluster_features[j].trace_id]
        all_badness == ScoresOf(scores, [i \in 1..Len(fs) |-> fs[i].trace_id])
        Attr(a) == [j \in 1..Len(idx) |-> cluster_features[j][a]]
    IN  [cluster_id |-> cluster_id,
         trace_ids |-> cluster_trace_ids,
         size |-> Len(cluster_trace_ids),
         badness_rate |-> Q(BadCount(all_badness), Len(all_badness)),
         avg_badness |-> QDiv(QSum(all_badness), QInt(Len(all_badness))),
         dominant_intent |-> _mode(Attr("intent")),
         dominant_route |-> _mode(Attr("route")),
         dominant_model |-> _mode(Attr("model")),
         example_trace_ids |->
             _select_representatives(cluster_features,
                                     ClosestIndices(closest, Len(idx)), NumExamples)]

\* the ClusterResult of one label (lines 130-174)
ClusterOf(fs, scores, labels, cluster_id, closest) ==
    LET idx == SelectSeq([i \in 1..Len(fs) |-> i], LAMBDA i : labels[i] = cluster_id)
        cluster_features == [j \in 1..Len(idx) |-> fs[idx[j]]]
        cluster_trace_ids == [j \in 1..Len(idx) |-> cluster_features[j].trace_id]
        cluster_badness == ScoresOf(scores, cluster_trace_ids)
        Attr(a) == [j \in 1..Len(idx) |-> cluster_features[j][a]]
    IN  [cluster_id |-> cluster_id,
         trace_ids |-> cluster_trace_ids,
         size |-> Len(cluster_trace_ids),
         badness_rate |-> IF Len(cluster_badness) > 0
                          THEN Q(BadCount(cluster_badness), Len(cluster_badness))
                          ELSE QZero,
         avg_badness |-> IF Len(cluster_badness) > 0
                         THEN QDiv(QSum(cluster_badness), QInt(Len(cluster_badness)))
                         ELSE Half,
         dominant_intent |-> _mode(Attr("intent")),
         dominant_route |-> _mode(Attr("route")),
         dominant_model |-> _mode(Attr("model")),
         example_trace_ids |->
             _select_representatives(cluster_features,
                                     ClosestIndices(closest, Len(idx)), NumExamples)]

\* clusters.sort(key=lambda c: c.badness_rate, reverse=True): a stable sort
SortByBadnessRate(cs) == SortDesc(cs, [i \in 1..Len(cs) |-> cs[i].badness_rate])

\* _build_cluster_results: one cluster per label other than -1, in ascending
\* label order, then sorted
_build_cluster_results(fs, scores, labels, closest) ==
    LET RECURSIVE Build(_)
        Build(cluster_id) ==
            IF \A l \in Range(labels) : l < cluster_id THEN <<>>
            ELSE (IF cluster_id \in Range(labels)
                  THEN <<ClusterOf(fs, scores, labels, cluster_id, closest)>>
                  ELSE <<>>) \o Build(cluster_id + 1)
    IN  SortByBadnessRate(Build(0))

\* cluster_traces raises: hstack of an embedding block of ragged rows, or
\* KMeans asked for more clusters than there are samples
cluster_traces_raises(fs, method, min_cluster_size, k) ==
    /\ Len(fs) >= min_cluster_size
    /\ \/ build_feature_matrix_raises(fs)
       \/ method # "hdbscan" /\ Len(fs) < k

\* cluster_traces, given what the library returned
cluster_traces(fs, scores, min_cluster_size, labels, closest) ==
    IF Len(fs) < min_cluster_size THEN <<>>
    ELSE _build_cluster_results(fs, scores, labels, closest)

-----------------------------------------------------------------------------
(* pipeline.py: configuration and collaborators *)

\* DiscoveryConfig(): n_clusters is None and significance_threshold is 0.05
\* in every configuration of the model
DefaultConfig ==
    [cluster_method |-> "hdbscan",
     min_cluster_size |-> DefaultMinClusterSize,
     slice_attributes |-> <<"intent", "route", "model", "prompt_version">>,
     min_slice_size |-> DefaultMinSliceSize,
     max_slice_depth |-> DefaultMaxSliceDepth,
     badness_weights |-> DEFAULT_WEIGHTS,
     embedding_model |-> "text-embedding-3-small",
     skip_embeddings |-> FALSE,
     min_traces |-> DefaultMinTraces,
     max_traces |-> DefaultMaxTraces]

\* run_trace_discovery: DiscoveryConfig(min_traces=20, max_traces=5000)
HelperConfig ==
    [DefaultConfig EXCEPT !.min_traces = HelperMinTraces, !.max_traces = HelperMaxTraces]

\* a configuration for small batches
SmallConfig ==
    [DefaultConfig EXCEPT !.cluster_method = "kmeans", !.min_cluster_size = 1,
                          !.min_slice_size = 1, !.min_traces = 2]

\* the configurations a caller of run_discovery passes
DirectConfigs ==
    {DefaultConfig,
     SmallConfig,
     [SmallConfig EXCEPT !.embedding_model = "text-embedding-3-large"],
     [DefaultConfig EXCEPT !.skip_embeddings = TRUE, !.min_slice_size = 1,
                           !.min_traces = 2, !.max_traces = 2],
     [DefaultConfig EXCEPT !.min_traces = 0, !.min_slice_size = 1],
     [DefaultConfig EXCEPT !.skip_embeddings = TRUE, !.min_cluster_size = 2,
                           !.min_traces = 2, !.max_traces = 2]}

\* all sequences over S of length at most n
RECURSIVE SeqsUpTo(_, _)
SeqsUpTo(S, n) ==
    IF n = 0 THEN {<<>>}
    ELSE LET shorter == SeqsUpTo(S, n - 1)
         IN  shorter \cup {Append(q, x) : q \in shorter, x \in S}

\* the batches of traces offered to run_discovery: fewer than MaxBatch traces
\* of any shapes, or MaxBatch traces of pairwise different shapes
Batches ==
    SeqsUpTo(Shapes \ {"orphan"}, MaxBatch - 1)
    \cup {q \in SeqsUpTo(Shapes \ {"orphan"}, MaxBatch) :
             \A i, j \in 1..Len(q) : i # j => q[i] # q[j]}

\* what the trace store holds when run_discovery is called: a batch, a
\* batch followed by a span without a trace id, or rows without the
\* context.trace_id column
DirectStores ==
    {[cols |-> AllCols, blocks |-> [i \in 1..Len(q) |-> [tpl |-> q[i], n |-> 1]]] :
        q \in Batches}
    \cup {[cols |-> AllCols,
           blocks |-> [i \in 1..Len(q) |-> [tpl |-> q[i], n |-> 1]]
                      \o <<[tpl |-> "orphan", n |-> 1]>>] :
            q \in SeqsUpTo({"chat"}, MaxBatch - 1)}
    \cup {[cols |-> AllCols \ {"trace_id"}, blocks |-> <<[tpl |-> "chat", n |-> 1]>>]}

\* what the trace store holds when run_trace_discovery is called: blocks of
\* traces of one shape, sized around the gate of 20 traces; "agent" and
\* "agent_err" traces share their attributes and differ in their outcome, "chat"
\* and "chat_err" traces share their intent and model
HelperStores ==
    {[cols |-> AllCols, blocks |-> b] :
        b \in {<<>>,
               <<[tpl |-> "chat", n |-> 10], [tpl |-> "research", n |-> 9]>>,
               <<[tpl |-> "chat", n |-> 10], [tpl |-> "research", n |-> 9],
                 [tpl |-> "orphan", n |-> 1]>>,
               <<[tpl |-> "chat", n |-> 10], [tpl |-> "research", n |-> 10]>>,
               <<[tpl |-> "research", n |-> 10], [tpl |-> "chat", n |-> 12]>>,
               <<[tpl |-> "chat", n |-> 10], [tpl |-> "research", n |-> 10],
                 [tpl |-> "agent", n |-> 10]>>,
               <<[tpl |-> "chat", n |-> 10], [tpl |-> "research", n |-> 10],
                 [tpl |-> "agent", n |-> 5], [tpl |-> "agent_err", n |-> 5]>>,
               <<[tpl |-> "chat", n |-> 10], [tpl |-> "agent", n |-> 6],
                 [tpl |-> "agent_err", n |-> 4]>>,
               <<[tpl |-> "chat", n |-> 10], [tpl |-> "chat_err", n |-> 10]>>,
               <<[tpl |-> "agent", n |-> 12], [tpl |-> "agent_err", n |-> 8]>>}}

\* the annotation tables the store can return: empty, or scores on the spans
\* of the first trace (a score is whatever the annotator wrote)
AnnotationTables ==
    {[present |-> TRUE, rows |-> r] :
        r \in {<<>>,
               <<[span_id |-> 11, name |-> "quality", score |-> QInt(5)]>>,
               <<[span_id |-> 11, name |-> "Answer Quality", score |-> QInt(0)],
                 [span_id |-> 12, name |-> "grounding", score |-> QInt(1)]>>}}

\* the annotation tables of a call: run_discovery can also meet a trace
\* that both evaluators scored 0
Annotations ==
    IF entry = "direct"
    THEN AnnotationTables
         \cup {[present |-> TRUE,
                rows |-> <<[span_id |-> 11, name |-> "quality", score |-> QInt(0)],
                           [span_id |-> 12, name |-> "grounding", score |-> QInt(0)]>>]}
    ELSE AnnotationTables

\* what the trace store holds when run_discovery is called twice with the
\* default configuration: a batch that passes its gate of 50 traces
RepeatStores ==
    {[cols |-> AllCols, blocks |-> b] :
        b \in {<<[tpl |-> "chat", n |-> 25], [tpl |-> "research", n |-> 25]>>}}

\* a span fetch that hands back the store's table whether or not the call
\* raised: the failure would go unnoticed and the run would go on
FetchSpansUnnoticed(raises, store) == store

\* _fetch_spans: the store's table, or an empty DataFrame when the call raises
_fetch_spans(raises, store) == IF raises THEN EmptyTable ELSE store

\* _fetch_annotations: the store's table, or None when the call raises
_fetch_annotations(raises, table) == IF raises THEN NoAnnotations ELSE table

NoExc == [type |-> "", msg |-> ""]

InsufficientData(msg) == [type |-> "InsufficientDataError", msg |-> msg]

-----------------------------------------------------------------------------
(* pipeline.py: IssueDiscoveryPipeline.run, one action per stage *)

pipeline_vars == <<spans_df, trace_ids, annotations_df, features, badness_scores,
                   clusters, slices, report>>
helper_vars == <<session, db, ret, clock, prev, call>>

\* an exception leaves run(): into run_trace_discovery's handler, or out of
\* run_discovery to its caller
Raise(e) ==
    /\ exc' = e
    /\ pc' = IF entry = "helper" THEN "handler" ELSE "raised"

Stores ==
    CASE entry = "helper" -> HelperStores
      [] entry = "repeat" -> RepeatStores
      [] OTHER -> DirectStores

\* lines 109-113
FetchSpans ==
    /\ pc = "fetch_spans"
    /\ \E raises \in BOOLEAN, store \in Stores :
          /\ spans_df' = _fetch_spans(raises, store)
          /\ io' = [io EXCEPT !.spans_raised = raises]
    /\ stages' = Append(stages, "fetch_spans")
    /\ IF Len(Rows(spans_df')) = 0
       THEN Raise(InsufficientData("No spans found for project p"))
       ELSE pc' = "trace_ids" /\ exc' = exc
    /\ UNCHANGED <<entry, cfg, trace_ids, annotations_df, features, badness_scores,
                   clusters, slices, report, embedding_cache>>
    /\ UNCHANGED helper_vars

\* lines 115-126
GetTraceIds ==
    /\ pc = "trace_ids"
    /\ stages' = Append(stages, "trace_ids")
    /\ LET ids == get_unique_trace_ids(spans_df)
       IN  IF Len(ids) < cfg.min_traces
           THEN /\ Raise(InsufficientData(
                        "Need at least " \o ToString(cfg.min_traces)
                        \o " traces, found " \o ToString(Len(ids))))
                /\ trace_ids' = trace_ids
           ELSE /\ trace_ids' = IF Len(ids) > cfg.max_traces
                                THEN Prefix(ids, cfg.max_traces) ELSE ids
                /\ pc' = "fetch_annotations"
                /\ exc' = exc
    /\ UNCHANGED <<entry, cfg, spans_df, annotations_df, features, badness_scores,
                   clusters, slices, report, io, embedding_cache>>
    /\ UNCHANGED helper_vars

\* line 129
FetchAnnotations ==
    /\ pc = "fetch_annotations"
    /\ \E raises \in BOOLEAN, table \in Annotations :
          /\ raises => table.rows = <<>>
          /\ annotations_df' = _fetch_annotations(raises, table)
          /\ io' = [io EXCEPT !.annotations_raised = raises]
    /\ stages' = Append(stages, "fetch_annotations")
    /\ pc' = "extract"
    /\ UNCHANGED <<entry, cfg, spans_df, trace_ids, features, badness_scores,
                   clusters, slices, report, exc, embedding_cache>>
    /\ UNCHANGED helper_vars

\* the features list built by the loop of lines 133-137
Extracted(t, ids, ann) ==
    Flatten([i \in 1..Len(ids) |-> extract_features_from_spans(t, ids[i], ann)])

\* lines 131-144
ExtractFeatures ==
    /\ pc = "extract"
    /\ stages' = Append(stages, "extract")
    /\ LET fs == Extracted(spans_df, trace_ids, annotations_df)
       IN  IF extract_raises(spans_df, trace_ids, annotations_df)
           THEN /\ Raise([type |-> "KeyError", msg |-> "missing column"])
                /\ features' = features
           ELSE IF Len(fs) < cfg.min_traces
           THEN /\ Raise(InsufficientData(
                        "Need at least " \o ToString(cfg.min_traces)
                        \o " valid features, got " \o ToString(Len(fs))))
                /\ features' = fs
           ELSE /\ features' = fs
                /\ pc' = "embed"
                /\ exc' = exc
    /\ UNCHANGED <<entry, cfg, spans_df, trace_ids, annotations_df, badness_scores,
                   clusters, slices, report, io, embedding_cache>>
    /\ UNCHANGED helper_vars

\* what the embedding stage meets: no OPENAI_API_KEY, an OpenAI() constructor
\* that raises, or a provider that fails the calls at the given positions
EmbedOutcomes ==
    {[key |-> FALSE, client |-> FALSE, failing |-> {}],
     [key |-> TRUE, client |-> FALSE, failing |-> {}]}
    \cup {[key |-> TRUE, client |-> TRUE, failing |-> F] : F \in SUBSET (1..MaxEmbedFail)}

\* the positions of the loop of add_embeddings whose provider call failed
FailedCalls(fs, model, cache, failing) ==
    LET done == add_embeddings(fs, model, cache, failing).features
    IN  {i \in 1..Len(fs) : done[i].text_embedding.src = "zeros"}

\* lines 146-158
AddEmbeddings ==
    /\ pc = "embed"
    /\ stages' = Append(stages, "embed")
    /\ IF cfg.skip_embeddings
       THEN /\ io' = [io EXCEPT !.embed = "disabled"]
            /\ UNCHANGED <<features, embedding_cache>>
       ELSE \E o \in EmbedOutcomes :
              IF ~o.key
              THEN /\ io' = [io EXCEPT !.embed = "no_key"]
                   /\ UNCHANGED <<features, embedding_cache>>
              ELSE IF ~o.client
              THEN /\ io' = [io EXCEPT !.embed = "client_error"]
                   /\ UNCHANGED <<features, embedding_cache>>
              ELSE LET r == add_embeddings(features, cfg.embedding_model,
                                           embedding_cache, o.failing)
                   IN  /\ features' = r.features
                       /\ embedding_cache' = r.cache
                       /\ io' = [io EXCEPT !.embed = "called",
                                    !.embed_failed =
                                        FailedCalls(features, cfg.embedding_model,
                                                    embedding_cache, o.failing)]
    /\ pc' = "badness"
    /\ UNCHANGED <<entry, cfg, spans_df, trace_ids, annotations_df, badness_scores,
                   clusters, slices, report, exc>>
    /\ UNCHANGED helper_vars

\* lines 160-162
ComputeBadness ==
    /\ pc = "badness"
    /\ stages' = Append(stages, "badness")
    /\ badness_scores' = compute_badness_batch(features, cfg.badness_weights)
    /\ pc' = "cluster"
    /\ UNCHANGED <<entry, cfg, spans_df, trace_ids, annotations_df, features,
                   clusters, slices, report, exc, io, embedding_cache>>
    /\ UNCHANGED helper_vars

\* the k that reaches KMeans (n_clusters is None), 0 for hdbscan
Ks(method, n) == IF method = "hdbscan" THEN {0} ELSE _estimate_k(n, MaxK(n))

\* the matrix build_feature_matrix gives the clusterer
FeatureMatrix(fs) == List([i \in 1..Len(fs) |-> FeatureRow(fs[i])])

\* HDBSCAN, KMeans(random_state=42) and np.argsort compute their results
\* from the matrix alone: on the matrix of an earlier run they return what
\* they returned then
SameAsBefore(X, k, labels, closest) ==
    (prev # <<>> /\ prev[1].io.clustering # <<>> /\ prev[1].io.clustering[1].X = X) =>
        /\ prev[1].io.clustering[1].k = k
        /\ prev[1].io.clustering[1].labels = labels
        /\ prev[1].io.clustering[1].closest = closest

\* lines 164-172
ClusterTraces ==
    /\ pc = "cluster"
    /\ stages' = Append(stages, "cluster")
    /\ IF Len(features) < cfg.min_cluster_size
       THEN /\ clusters' = <<>>
            /\ pc' = "slices"
            /\ exc' = exc
            /\ io' = io
       ELSE \E k \in Ks(cfg.cluster_method, Len(features)) :
              IF cluster_traces_raises(features, cfg.cluster_method,
                                       cfg.min_cluster_size, k)
              THEN /\ Raise([type |-> "ValueError", msg |-> "cluster_traces"])
                   /\ clusters' = clusters
                   /\ io' = io
              ELSE \E labels \in Labelings(features, cfg.cluster_method, k),
                      closest \in ArgsortOrders(Len(features)) :
                     /\ SameAsBefore(FeatureMatrix(features), k, labels, closest)
                     /\ clusters' = cluster_traces(features, badness_scores,
                                                   cfg.min_cluster_size, labels, closest)
                     /\ io' = [io EXCEPT !.clustering =
                                   <<[X |-> FeatureMatrix(features), k |-> k,
                                      labels |-> labels, closest |-> closest,
                                      width |-> ClusterMatrixWidth(features)]>>]
                     /\ pc' = "slices"
                     /\ exc' = exc
    /\ UNCHANGED <<entry, cfg, spans_df, trace_ids, annotations_df, features,
                   badness_scores, slices, report, embedding_cache>>
    /\ UNCHANGED helper_vars

\* lines 175-184
RankSlices ==
    /\ pc = "slices"
    /\ stages' = Append(stages, "slices")
    /\ slices' = rank_slices(features, badness_scores, cfg.slice_attributes,
                             cfg.min_slice_size, cfg.max_slice_depth)
    /\ pc' = "report"
    /\ UNCHANGED <<entry, cfg, spans_df, trace_ids, annotations_df, features,
                   badness_scores, clusters, report, exc, io, embedding_cache>>
    /\ UNCHANGED helper_vars

\* run(project, start_time=None, end_time=None, days_back=7), called when
\* datetime.now is 10 days after the first span of the store; <<>> is None
DefaultArgs ==
    [start_time |-> <<>>, end_time |-> <<>>, days_back |-> 7, now |-> 10 * Day]

\* the arguments of the run() in progress
RunArgs == IF entry = "range" THEN call[1] ELSE DefaultArgs

\* lines 101-105: the resolved (start_time, end_time)
resolve_time_range(args) ==
    LET end_time == IF args.end_time = <<>> THEN args.now ELSE args.end_time[1]
        start_time == IF args.start_time = <<>>
                      THEN end_time - args.days_back * Day
                      ELSE args.start_time[1]
    IN  <<start_time, end_time>>

\* a report that counts the significant slices of the whole ranking rather
\* than of its top_slices
ReportCountingAllSlices(fs, scores, cs, sls) ==
    [project |-> "p",
     total_traces |-> Len(fs),
     baseline_badness |->
         QDiv(QSum([i \in 1..Len(scores) |-> scores[i].score]), QInt(Len(scores))),
     clusters |-> cs,
     top_slices |-> Prefix(sls, TopSlices),
     num_bad_traces |-> Len(SelectSeq(scores, is_bad)),
     num_clusters |-> Len(cs),
     num_significant_slices |-> Len(SelectSeq(sls, IsSignificant)),
     time_range |-> resolve_time_range(RunArgs)]

\* the DiscoveryReport of lines 187-199, with the counts its __post_init__
\* derives (models.py lines 134-136)
DiscoveryReport(fs, scores, cs, sls) ==
    [project |-> "p",
     total_traces |-> Len(fs),
     baseline_badness |->
         QDiv(QSum([i \in 1..Len(scores) |-> scores[i].score]), QInt(Len(scores))),
     clusters |-> cs,
     top_slices |-> Prefix(sls, TopSlices),
     num_bad_traces |-> Len(SelectSeq(scores, is_bad)),
     num_clusters |-> Len(cs),
     num_significant_slices |-> Len(SelectSeq(Prefix(sls, TopSlices), IsSignificant)),
     time_range |-> resolve_time_range(RunArgs)]

\* lines 187-203; line 188 divides by len(badness_scores)
BuildReport ==
    /\ pc = "report"
    /\ stages' = Append(stages, "report")
    /\ IF Len(badness_scores) = 0
       THEN /\ Raise([type |-> "ZeroDivisionError", msg |-> "division by zero"])
            /\ report' = report
       ELSE /\ report' = <<DiscoveryReport(features, badness_scores, clusters, slices)>>
            /\ pc' = IF entry = "helper" THEN "store" ELSE "returned"
            /\ exc' = exc
    /\ UNCHANGED <<entry, cfg, spans_df, trace_ids, annotations_df, features,
                   badness_scores, clusters, slices, io, embedding_cache>>
    /\ UNCHANGED helper_vars

RunPipeline ==
    \/ FetchSpans
    \/ GetTraceIds
    \/ FetchAnnotations
    \/ ExtractFeatures
    \/ AddEmbeddings
    \/ ComputeBadness
    \/ ClusterTraces
    \/ RankSlices
    \/ BuildReport

NoIo == [spans_raised |-> FALSE, annotations_raised |-> FALSE, embed |-> "",
         embed_failed |-> {}, clustering |-> <<>>]

\* a TraceDiscoveryRun row; -1 and NoneQ stand for NULL
NewRun ==
    [id |-> 1, project_id |-> 1, started_at |-> 0, completed_at |-> -1,
     status |-> "running", total_traces |-> -1, baseline_badness |-> NoneQ,
     error_message |-> ""]

EmptyDb == [runs |-> {}, clusters |-> <<>>, slices |-> <<>>]
EmptySession == [run |-> <<>>, clusters |-> <<>>, slices |-> <<>>]

InitPipelineVars ==
    /\ spans_df = EmptyTable
    /\ trace_ids = <<>>
    /\ annotations_df = NoAnnotations
    /\ features = <<>>
    /\ badness_scores = <<>>
    /\ clusters = <<>>
    /\ slices = <<>>
    /\ report = <<>>
    /\ exc = NoExc
    /\ stages = <<>>
    /\ io = NoIo
    /\ embedding_cache = <<>>

\* run_discovery(project, config=cfg) is called
InitPipeline ==
    /\ entry = "direct"
    /\ pc = "fetch_spans"
    /\ cfg \in DirectConfigs
    /\ InitPipelineVars
    /\ session = EmptySession
    /\ db = EmptyDb
    /\ ret = <<>>
    /\ clock = 0
    /\ prev = <<>>
    /\ call = <<>>

SpecPipeline == InitPipeline /\ [][RunPipeline]_vars

\* the arguments run() is called with: a range given or left to the
\* defaults, around spans stamped within the first days of the clock
RangeArgs ==
    {[start_time |-> s, end_time |-> e, days_back |-> d, now |-> 10 * Day] :
        s \in {<<>>, <<5 * Day>>}, e \in {<<>>, <<6 * Day>>}, d \in {1, 7}}

\* pipeline.run(project, start_time, end_time, days_back) is called
InitRange ==
    /\ entry = "range"
    /\ pc = "fetch_spans"
    /\ cfg = [DefaultConfig EXCEPT !.min_traces = 0, !.min_slice_size = 1]
    /\ InitPipelineVars
    /\ session = EmptySession
    /\ db = EmptyDb
    /\ ret = <<>>
    /\ clock = 0
    /\ prev = <<>>
    /\ call \in {<<a>> : a \in RangeArgs}

SpecRange == InitRange /\ [][RunPipeline]_vars

\* run() has returned and is called again over the same batch, in the same
\* process: the trace store gives the spans and annotations it gave before
\* (steps 1 to 3), the outputs of the first run are kept for comparison, and
\* features._embedding_cache is what the first run left
RunAgain ==
    /\ entry = "repeat"
    /\ pc = "returned"
    /\ prev = <<>>
    /\ prev' = <<[io |-> io, badness_scores |-> badness_scores,
                  clusters |-> clusters, slices |-> slices, report |-> report[1]]>>
    /\ features' = <<>>
    /\ badness_scores' = <<>>
    /\ clusters' = <<>>
    /\ slices' = <<>>
    /\ report' = <<>>
    /\ stages' = <<"fetch_spans", "trace_ids", "fetch_annotations">>
    /\ io' = [NoIo EXCEPT !.annotations_raised = io.annotations_raised]
    /\ pc' = "extract"
    /\ UNCHANGED <<entry, cfg, spans_df, trace_ids, annotations_df, exc,
                   embedding_cache, session, db, ret, clock, call>>

\* what features._embedding_cache can hold when the first run starts:
\* nothing, or the text of a "chat" trace embedded by earlier work of the
\* process
WarmCaches ==
    {<<>>,
     Put(<<>>, CacheKey(DefaultConfig.embedding_model, "hello there\n---\nhi"),
         Embedding(DefaultConfig.embedding_model, "hello there\n---\nhi"))}

\* run_discovery(project) is called with the default configuration
InitRepeat ==
    /\ entry = "repeat"
    /\ pc = "fetch_spans"
    /\ cfg = DefaultConfig
    /\ spans_df = EmptyTable
    /\ trace_ids = <<>>
    /\ annotations_df = NoAnnotations
    /\ features = <<>>
    /\ badness_scores = <<>>
    /\ clusters = <<>>
    /\ slices = <<>>
    /\ report = <<>>
    /\ exc = NoExc
    /\ stages = <<>>
    /\ io = NoIo
    /\ embedding_cache \in WarmCaches
    /\ session = EmptySession
    /\ db = EmptyDb
    /\ ret = <<>>
    /\ clock = 0
    /\ prev = <<>>
    /\ call = <<>>

NextRepeat == RunPipeline \/ RunAgain

SpecRepeat == InitRepeat /\ [][NextRepeat]_vars

-----------------------------------------------------------------------------
(* server/api/helpers/discovery.py: run_trace_discovery *)

\* the TraceCluster rows of lines 205-217
ClusterRows(run_id, rep) ==
    [i \in 1..Len(rep.clusters) |->
        [run_id |-> run_id,
         cluster_index |-> i - 1,
         size |-> rep.clusters[i].size,
         badness_rate |-> rep.clusters[i].badness_rate,
         avg_badness |-> rep.clusters[i].avg_badness,
         dominant_intent |-> rep.clusters[i].dominant_intent,
         dominant_route |-> rep.clusters[i].dominant_route,
         dominant_model |-> rep.clusters[i].dominant_model,
         example_trace_ids |-> rep.clusters[i].example_trace_ids]]

\* the TraceSlice rows of lines 220-231
SliceRows(run_id, rep) ==
    LET top == Prefix(rep.top_slices, TopSlices)
    IN  [i \in 1..Len(top) |->
            [run_id |-> run_id,
             attrs |-> top[i].attrs,
             key |-> top[i].key,
             size |-> top[i].size,
             badness_rate |-> top[i].badness_rate,
             baseline_rate |-> top[i].baseline_rate,
             lift |-> top[i].lift,
             p_value |-> top[i].p_value,
             sample_trace_ids |-> Prefix(top[i].trace_ids, SampleIds)]]

\* _model_to_gql_run
_model_to_gql_run(run, cluster_rows, slice_rows) ==
    [id |-> run.id,
     started_at |-> run.started_at,
     completed_at |-> run.completed_at,
     status |-> run.status,
     total_traces |-> run.total_traces,
     baseline_badness |-> run.baseline_badness,
     error_message |-> run.error_message,
     clusters |-> cluster_rows,
     top_slices |-> slice_rows]

\* db.commit(): the session's run and pending rows become committed rows
Committed(d, sess) ==
    [runs |-> {r \in d.runs : r.id # sess.run[1].id} \cup {sess.run[1]},
     clusters |-> d.clusters \o sess.clusters,
     slices |-> d.slices \o sess.slices]

AfterCommit(sess) == [sess EXCEPT !.clusters = <<>>, !.slices = <<>>]

\* get_latest_discovery_run: <<>> for None
get_latest_discovery_run(d, project_id) ==
    LET completed == {r \in d.runs : r.project_id = project_id /\ r.status = "completed"}
        run == CHOOSE r \in completed :
                   \A o \in completed : o.completed_at <= r.completed_at
        cs == SelectSeq(d.clusters, LAMBDA c : c.run_id = run.id)
        sls == SelectSeq(d.slices, LAMBDA sl : sl.run_id = run.id)
    IN  IF completed = {} THEN <<>>
        ELSE << _model_to_gql_run(run, SortByBadnessRate(cs),
                                  Prefix(SortByLift(sls), TopSlices)) >>

\* lines 176-182: the run record is created and added to the session
CreateRun ==
    /\ pc = "start"
    /\ session' = [session EXCEPT !.run = <<[NewRun EXCEPT !.started_at = clock]>>]
    /\ clock' = clock + 1
    /\ pc' = "flush"
    /\ UNCHANGED <<entry, cfg, exc, stages, io, embedding_cache, db, ret>>
    /\ UNCHANGED <<pipeline_vars, prev, call>>

\* line 183: await db.flush()
Flush ==
    /\ pc = "flush"
    /\ pc' = "project_query"
    /\ UNCHANGED <<entry, cfg, exc, stages, io, embedding_cache, session, db, ret, clock>>
    /\ UNCHANGED <<pipeline_vars, prev, call>>

\* lines 187-189: scalar_one() raises NoResultFound when the project is gone
ProjectQuery ==
    /\ pc = "project_query"
    /\ \E found \in BOOLEAN :
          IF found THEN pc' = "import" /\ exc' = exc
          ELSE /\ pc' = "handler"
               /\ exc' = [type |-> "NoResultFound",
                          msg |-> "No row was found when one was required"]
    /\ UNCHANGED <<entry, cfg, stages, io, embedding_cache, session, db, ret, clock>>
    /\ UNCHANGED <<pipeline_vars, prev, call>>

\* lines 193-201 and 239-246: the import of the discovery package, the
\* pipeline's configuration, and the fallback when it is not installed
ImportPipeline ==
    /\ pc = "import"
    /\ \E installed \in BOOLEAN :
          IF installed
          THEN /\ cfg' = HelperConfig
               /\ pc' = "fetch_spans"
               /\ UNCHANGED <<exc, session, clock>>
          ELSE /\ exc' = [type |-> "ImportError", msg |-> "No module named 'obs'"]
               /\ session' = [session EXCEPT
                                 !.run[1].status = "completed",
                                 !.run[1].completed_at = clock,
                                 !.run[1].total_traces = 0,
                                 !.run[1].baseline_badness = QZero,
                                 !.run[1].error_message = "Discovery module not installed"]
               /\ clock' = clock + 1
               /\ pc' = "commit"
               /\ cfg' = cfg
    /\ UNCHANGED <<entry, stages, io, embedding_cache, db, ret>>
    /\ UNCHANGED <<pipeline_vars, prev, call>>

\* lines 204-237: the report's rows are added and the run is marked completed
StoreReport ==
    /\ pc = "store"
    /\ session' = [session EXCEPT
                      !.clusters = ClusterRows(session.run[1].id, report[1]),
                      !.slices = SliceRows(session.run[1].id, report[1]),
                      !.run[1].status = "completed",
                      !.run[1].completed_at = clock,
                      !.run[1].total_traces = report[1].total_traces,
                      !.run[1].baseline_badness = report[1].baseline_badness]
    /\ clock' = clock + 1
    /\ pc' = "commit"
    /\ UNCHANGED <<entry, cfg, exc, stages, io, embedding_cache, db, ret>>
    /\ UNCHANGED <<pipeline_vars, prev, call>>

\* line 248: await db.commit()
Commit ==
    /\ pc = "commit"
    /\ db' = Committed(db, session)
    /\ session' = AfterCommit(session)
    /\ pc' = "read_back"
    /\ UNCHANGED <<entry, cfg, exc, stages, io, embedding_cache, ret, clock>>
    /\ UNCHANGED <<pipeline_vars, prev, call>>

\* line 251: return await get_latest_discovery_run(db, project_id); one of
\* its queries can raise
ReadBack ==
    /\ pc = "read_back"
    /\ \E raises \in BOOLEAN :
          IF raises
          THEN /\ exc' = [type |-> "OperationalError", msg |-> "read-back failed"]
               /\ pc' = "handler"
               /\ ret' = ret
          ELSE /\ ret' = get_latest_discovery_run(db, session.run[1].project_id)
               /\ pc' = "returned"
               /\ exc' = exc
    /\ UNCHANGED <<entry, cfg, stages, io, embedding_cache, session, db, clock>>
    /\ UNCHANGED <<pipeline_vars, prev, call>>

\* lines 253-257: except Exception
Handler ==
    /\ pc = "handler"
    /\ session' = [session EXCEPT !.run[1].status = "failed",
                                  !.run[1].completed_at = clock,
                                  !.run[1].error_message = exc.msg]
    /\ clock' = clock + 1
    /\ pc' = "handler_commit"
    /\ UNCHANGED <<entry, cfg, exc, stages, io, embedding_cache, db, ret>>
    /\ UNCHANGED <<pipeline_vars, prev, call>>

\* lines 258-261: await db.commit(); return the failed run
HandlerCommit ==
    /\ pc = "handler_commit"
    /\ db' = Committed(db, session)
    /\ session' = AfterCommit(session)
    /\ ret' = << _model_to_gql_run(session.run[1], <<>>, <<>>) >>
    /\ pc' = "returned"
    /\ UNCHANGED <<entry, cfg, exc, stages, io, embedding_cache, clock>>
    /\ UNCHANGED <<pipeline_vars, prev, call>>

\* the awaits of run_trace_discovery: asyncio delivers a cancellation there
AwaitPoints == {"flush", "project_query", "commit", "read_back", "handler_commit"}

\* the task is cancelled at an await: CancelledError is a BaseException, so
\* `except Exception` does not catch it; it leaves the function and the
\* session context manager of the mutation rolls back what is uncommitted
Cancel ==
    /\ pc \in AwaitPoints
    /\ exc' = [type |-> "CancelledError", msg |-> ""]
    /\ session' = EmptySession
    /\ pc' = "cancelled"
    /\ UNCHANGED <<entry, cfg, stages, io, embedding_cache, db, ret, clock>>
    /\ UNCHANGED <<pipeline_vars, prev, call>>

\* no pipeline is running: a function of the package is called on its own
NoRun ==
    /\ pc = "call"
    /\ cfg = DefaultConfig
    /\ spans_df = EmptyTable
    /\ trace_ids = <<>>
    /\ annotations_df = NoAnnotations
    /\ features = <<>>
    /\ badness_scores = <<>>
    /\ clusters = <<>>
    /\ slices = <<>>
    /\ report = <<>>
    /\ exc = NoExc
    /\ stages = <<>>
    /\ io = NoIo
    /\ embedding_cache = <<>>
    /\ session = EmptySession
    /\ db = EmptyDb
    /\ ret = <<>>
    /\ clock = 0
    /\ prev = <<>>

run_vars == <<entry, pc, cfg, spans_df, trace_ids, annotations_df, features,
              badness_scores, clusters, slices, report, exc, stages, io,
              embedding_cache, session, db, ret, clock, prev>>

\* the matrices cluster_X = X_scaled[mask] of clusters of up to MaxMembers
\* traces
ClusterMatrices ==
    UNION {[1..m -> [1..Columns -> 0..MaxCoord]] : m \in 1..MaxMembers}

\* _build_cluster_results hands a cluster's features and matrix to
\* _select_representatives (lines 156-161)
InitSelect ==
    /\ entry = "select"
    /\ NoRun
    /\ \E X \in ClusterMatrices :
          call = <<[features |-> [i \in 1..Len(X) |-> [trace_id |-> 100 + i]],
                    X |-> X, out |-> <<>>]>>

\* _select_representatives(cluster_features, cluster_X, centroid, n=5)
SelectRepresentatives ==
    /\ entry = "select"
    /\ call[1].out = <<>>
    /\ \E order \in argsort(Distances(call[1].X)) :
          call' = <<[call[1] EXCEPT !.out =
                        <<_select_representatives(call[1].features,
                                                  Prefix(order, NumExamples),
                                                  NumExamples)>>]>>
    /\ UNCHANGED run_vars

SpecSelect == InitSelect /\ [][SelectRepresentatives]_vars

\* the feature sets compute_badness_batch is called on: the features of
\* small batches, with and without annotations
ScaleFeatureSets ==
    {Extracted([cols |-> AllCols, blocks |-> b],
               get_unique_trace_ids([cols |-> AllCols, blocks |-> b]), ann) :
        b \in {<<[tpl |-> "chat", n |-> 1]>>,
               <<[tpl |-> "agent_err", n |-> 1], [tpl |-> "chat", n |-> 1]>>,
               <<[tpl |-> "agent", n |-> 1], [tpl |-> "agent_err", n |-> 1],
                 [tpl |-> "research", n |-> 1]>>},
        ann \in AnnotationTables}

\* weight settings with positive total weight: the defaults as floats, and
\* two settings of whole numbers
WeightSettings ==
    {[k \in DOMAIN DEFAULT_WEIGHTS |-> Fl(DEFAULT_WEIGHTS[k])],
     [quality_eval |-> QInt(3), grounding_eval |-> QInt(2), tool_errors |-> QInt(2),
      latency |-> QInt(1), error_count |-> QInt(2)],
     [k \in DOMAIN DEFAULT_WEIGHTS |-> QInt(1)]}

\* the constants the weights are scaled by
Scales == {Q(1, 2), QInt(2), QInt(3), QInt(5)}

\* BadnessWeights with every field multiplied by c
ScaledWeights(weights, c) == [k \in DOMAIN weights |-> Fl(QMul(c, weights[k]))]

\* compute_badness_batch is about to be called with w and with c*w
InitScale ==
    /\ entry = "scale"
    /\ NoRun
    /\ \E fs \in ScaleFeatureSets, w \in WeightSettings, c \in Scales :
          call = <<[features |-> fs, weights |-> w, c |-> c, out |-> <<>>]>>

\* compute_badness_batch(features, w) and compute_badness_batch(features, c*w)
ScaleWeights ==
    /\ entry = "scale"
    /\ call[1].out = <<>>
    /\ call' = <<[call[1] EXCEPT !.out =
                     <<[base |-> compute_badness_batch_fl(call[1].features,
                                                          call[1].weights),
                        scaled |-> compute_badness_batch_fl(call[1].features,
                                      ScaledWeights(call[1].weights, call[1].c))]>>]>>
    /\ UNCHANGED run_vars

SpecScale == InitScale /\ [][ScaleWeights]_vars

\* a text of 500 characters
Filler8 == "lorem ip"
Filler100 == Filler8 \o Filler8 \o Filler8 \o Filler8 \o Filler8 \o Filler8
             \o Filler8 \o Filler8 \o Filler8 \o Filler8 \o Filler8 \o Filler8 \o "sum."
Filler500 == Filler100 \o Filler100 \o Filler100 \o Filler100 \o Filler100

\* the texts embed_text is called with: short ones, and two that differ only
\* after their first 500 characters
EmbedTexts == {"hi", "hello there\n---\nhi", Filler500 \o " first", Filler500 \o " second"}

EmbedModels == {"text-embedding-3-small", "text-embedding-3-large"}

\* the process has made no embed_text call yet; call holds the calls made
\* and the vector each key was given by _embedding_cache[cache_key] = embedding
InitEmbed ==
    /\ entry = "embed"
    /\ NoRun
    /\ call = <<[log |-> <<>>, inserted |-> <<>>]>>

\* embed_text(text, model, client): lines 27-49
EmbedTextCall ==
    /\ entry = "embed"
    /\ Len(call[1].log) < MaxCalls
    /\ \E text \in EmbedTexts, model \in EmbedModels, fails \in BOOLEAN :
          LET cache_key == CacheKey(model, text)
              hit == cache_key \in DOMAIN embedding_cache
          IN  /\ embedding_cache' = CacheAfter(text, model, embedding_cache, fails)
              /\ call' = <<[log |-> Append(call[1].log,
                                [text |-> text, model |-> model, cache_key |-> cache_key,
                                 provider_called |-> ~hit,
                                 failed |-> ~hit /\ fails,
                                 ret |-> embed_text(text, model, embedding_cache, fails),
                                 before |-> embedding_cache]),
                            inserted |-> IF ~hit /\ ~fails
                                         THEN Put(call[1].inserted, cache_key,
                                                  Embedding(model, text))
                                         ELSE call[1].inserted]>>
    /\ UNCHANGED <<entry, pc, cfg, spans_df, trace_ids, annotations_df, features,
                   badness_scores, clusters, slices, report, exc, stages, io,
                   session, db, ret, clock, prev>>

SpecEmbed == InitEmbed /\ [][EmbedTextCall]_vars

\* the span tables extract_features_from_spans is called on: one trace of a
\* shape, in a table with every column or with one column missing; a "blank"
\* trace comes from instrumentation that leaves model and provider empty
ExtractTables ==
    {[cols |-> AllCols \ missing, blocks |-> <<[tpl |-> tpl, n |-> 1]>>] :
        tpl \in {"chat", "research", "agent", "agent_err", "blank"},
        missing \in {{}} \cup {{c} : c \in AllCols}}

\* extract_features_from_spans is about to be called for the trace of the
\* table (id 1) or for an id the table does not hold
InitExtract ==
    /\ entry = "extract"
    /\ NoRun
    /\ \E t \in ExtractTables, trace_id \in {1, 2},
          ann \in {NoAnnotations} \cup AnnotationTables :
          call = <<[spans_df |-> t, trace_id |-> trace_id, annotations_df |-> ann,
                    out |-> <<>>]>>

\* extract_features_from_spans(spans_df, trace_id, annotations_df)
ExtractCall ==
    /\ entry = "extract"
    /\ call[1].out = <<>>
    /\ LET raised == extract_features_raises(call[1].spans_df, call[1].trace_id,
                                             call[1].annotations_df)
       IN  call' = <<[call[1] EXCEPT !.out =
                        <<[raised |-> raised,
                           value |-> IF raised THEN <<>>
                                     ELSE extract_features_from_spans(
                                              call[1].spans_df, call[1].trace_id,
                                              call[1].annotations_df)]>>]>>
    /\ UNCHANGED run_vars

SpecExtract == InitExtract /\ [][ExtractCall]_vars

-----------------------------------------------------------------------------
(* clustering.py: cluster_traces with method kmeans and n_clusters None *)

\* np.diff
Diff(a) == List([i \in 1..(Len(a) - 1) |-> a[i + 1] - a[i]])

\* np.argmax: the index (from 0) of the first maximum
ArgMax(a) ==
    CHOOSE i \in 0..(Len(a) - 1) :
        /\ \A j \in 0..(Len(a) - 1) : a[j + 1] <= a[i + 1]
        /\ \A j \in 0..(i - 1) : a[j + 1] < a[i + 1]

\* K_range of _estimate_k (line 93): range(2, min(max_k + 1, len(X)))
K_range(len_X, max_k) ==
    LET hi == IF max_k + 1 < len_X THEN max_k + 1 ELSE len_X
    IN  List([i \in 1..(IF hi > 2 THEN hi - 2 ELSE 0) |-> i + 1])

\* the inertias KMeans can report for the k of K_range: every point sits on
\* its centroid when all rows are equal, so each inertia is 0 then
Inertias(identical, len) ==
    IF identical THEN {List([i \in 1..len |-> 0])}
    ELSE {List(f) : f \in [1..len -> 0..MaxInertia]}

\* an _estimate_k that takes the elbow index without the offset of 2
EstimateKWithoutOffset(len_X, max_k, inertias) ==
    LET second_diffs == Diff(Diff(inertias))
        elbow_idx == ArgMax(second_diffs)
    IN  IF len_X < max_k
        THEN [k |-> IF len_X \div 3 > 2 THEN len_X \div 3 ELSE 2, path |-> "small"]
        ELSE IF Len(inertias) < 3 THEN [k |-> 3, path |-> "fallback"]
        ELSE IF Len(second_diffs) > 0
             THEN [k |-> IF elbow_idx < max_k THEN elbow_idx ELSE max_k,
                   path |-> "elbow"]
             ELSE [k |-> max_k \div 2, path |-> "half"]

\* _estimate_k (lines 87-112), given the inertias KMeans reported: the k it
\* returns and the return statement it leaves by
EstimateK(len_X, max_k, inertias) ==
    LET second_diffs == Diff(Diff(inertias))
        elbow_idx == ArgMax(second_diffs) + 2
    IN  IF len_X < max_k
        THEN [k |-> IF len_X \div 3 > 2 THEN len_X \div 3 ELSE 2, path |-> "small"]
        ELSE IF Len(inertias) < 3 THEN [k |-> 3, path |-> "fallback"]
        ELSE IF Len(second_diffs) > 0
             THEN [k |-> IF elbow_idx < max_k THEN elbow_idx ELSE max_k,
                   path |-> "elbow"]
             ELSE [k |-> max_k \div 2, path |-> "half"]

\* the batch sizes of the calls
SampleSizes == 0..MaxSamples \cup {DefaultMinTraces}

\* a call cluster_traces(features, scores, method="kmeans",
\* min_cluster_size=m, n_clusters=None) on n traces whose feature rows are
\* all equal, or not
InitKMeans ==
    /\ entry = "kmeans"
    /\ NoRun
    /\ \E n \in SampleSizes, identical \in BOOLEAN,
          m \in {1, DefaultMinClusterSize} :
          /\ ~identical => n >= 2
          /\ call = <<[n |-> n, identical |-> identical, min_cluster_size |-> m,
                       out |-> <<>>]>>

\* cluster_traces lines 37-54 up to the call of KMeans: the candidates tried,
\* the k that reaches _cluster_kmeans and whether KMeans raises on it
\* (n_samples < n_clusters)
ClusterKMeansCall ==
    /\ entry = "kmeans"
    /\ call[1].out = <<>>
    /\ LET n == call[1].n
           max_k == MaxK(n)
       IN  IF n < call[1].min_cluster_size
           THEN call' = <<[call[1] EXCEPT !.out = <<[reached |-> FALSE]>>]>>
           ELSE \E inertias \in Inertias(call[1].identical, Len(K_range(n, max_k))) :
                   LET est == EstimateK(n, max_k, inertias)
                   IN  call' = <<[call[1] EXCEPT !.out =
                                     <<[reached |-> TRUE,
                                        max_k |-> max_k,
                                        K_range |-> K_range(n, max_k),
                                        inertias |-> inertias,
                                        k |-> est.k,
                                        path |-> est.path,
                                        raises |-> n < est.k]>>]>>
    /\ UNCHANGED run_vars

SpecKMeans == InitKMeans /\ [][ClusterKMeansCall]_vars

-----------------------------------------------------------------------------
(* server/api/helpers/discovery.py: concurrent run_trace_discovery calls *)

\* the reports pipeline.run can hand to an invocation: the store grows
\* between invocations, so two of them can get different reports
TaskReport(n) ==
    [total_traces |-> HelperMinTraces + n,
     baseline_badness |-> Q(n, HelperMinTraces + n),
     clusters |-> <<[size |-> HelperMinTraces + n, badness_rate |-> Q(n, HelperMinTraces + n),
                     avg_badness |-> Q(n, HelperMinTraces + n),
                     dominant_intent |-> "hello there", dominant_route |-> "CHAIN",
                     dominant_model |-> "gpt-4o", example_trace_ids |-> <<1 + n>>]>>,
     top_slices |-> <<[attrs |-> <<"route">>, key |-> <<"CHAIN">>,
                       trace_ids |-> <<1 + n>>, size |-> HelperMinTraces + n,
                       badness_rate |-> Q(n, HelperMinTraces + n),
                       baseline_rate |-> BaselineRate(<<Q(n, HelperMinTraces + n)>>),
                       lift |-> QOne, p_value |-> "1.0"]>>]

TaskReports == {TaskReport(0), TaskReport(1)}

\* what the invocations leave alone: the variables of a single pipeline run
task_frame == <<entry, pc, cfg, spans_df, trace_ids, annotations_df, features,
                badness_scores, clusters, slices, report, exc, stages, io,
                embedding_cache, session, ret, prev>>

\* an invocation that has not started: its own AsyncSession is empty
NewTask ==
    [pc |-> "start", session |-> EmptySession, own |-> <<>>, found |-> <<>>,
     found_clusters |-> <<>>, ret |-> <<>>, exc |-> NoExc]

\* lines 253-257, run without an await in between: except Exception
Handled(task, e, now) ==
    [task EXCEPT !.exc = e,
                 !.session.run[1].status = "failed",
                 !.session.run[1].completed_at = now,
                 !.session.run[1].error_message = e.msg,
                 !.pc = "handler_commit"]

\* lines 176-182: the run record is created and added to the session
TaskCreateRun(i) ==
    /\ call[1].tasks[i].pc = "start"
    /\ call' = <<[call[1] EXCEPT
                    !.tasks[i].session.run = <<[NewRun EXCEPT !.id = 0,
                                                              !.started_at = clock]>>,
                    !.tasks[i].pc = "flush"]>>
    /\ clock' = clock + 1
    /\ db' = db
    /\ UNCHANGED task_frame

\* line 183: await db.flush() inserts the row; the database assigns its id
TaskFlush(i) ==
    /\ call[1].tasks[i].pc = "flush"
    /\ call' = <<[call[1] EXCEPT
                    !.tasks[i].session.run[1].id = call[1].next_id,
                    !.tasks[i].pc = "project_query",
                    !.next_id = call[1].next_id + 1]>>
    /\ UNCHANGED <<db, clock>>
    /\ UNCHANGED task_frame

\* lines 187-246: the project query returns and the code runs on to the
\* next await (the commit of line 248, or the one of the handler): the
\* pipeline is called synchronously, its report is stored and the run is
\* marked completed
TaskRunPipeline(i) ==
    /\ call[1].tasks[i].pc = "project_query"
    /\ LET task == call[1].tasks[i]
           run_id == task.session.run[1].id
       IN  \/ \E e \in {[type |-> "NoResultFound",
                          msg |-> "No row was found when one was required"],
                         [type |-> "ValueError", msg |-> "cluster_traces"]} :
                 call' = <<[call[1] EXCEPT !.tasks[i] = Handled(task, e, clock)]>>
           \/ call' = <<[call[1] EXCEPT !.tasks[i] =
                  [task EXCEPT !.exc = [type |-> "ImportError",
                                        msg |-> "No module named 'obs'"],
                               !.session.run[1].status = "completed",
                               !.session.run[1].completed_at = clock,
                               !.session.run[1].total_traces = 0,
                               !.session.run[1].baseline_badness = QZero,
                               !.session.run[1].error_message =
                                   "Discovery module not installed",
                               !.own = <<[clusters |-> <<>>, slices |-> <<>>]>>,
                               !.pc = "commit"]]>>
           \/ \E rep \in TaskReports :
                 call' = <<[call[1] EXCEPT !.tasks[i] =
                  [task EXCEPT !.session.clusters = List(ClusterRows(run_id, rep)),
                               !.session.slices = List(SliceRows(run_id, rep)),
                               !.session.run[1].status = "completed",
                               !.session.run[1].completed_at = clock,
                               !.session.run[1].total_traces = rep.total_traces,
                               !.session.run[1].baseline_badness = rep.baseline_badness,
                               !.own = <<[clusters |-> List(ClusterRows(run_id, rep)),
                                          slices |-> List(SliceRows(run_id, rep))]>>,
                               !.pc = "commit"]]>>
    /\ clock' = clock + 1
    /\ db' = db
    /\ UNCHANGED task_frame

\* line 248: await db.commit()
TaskCommit(i) ==
    /\ call[1].tasks[i].pc = "commit"
    /\ db' = Committed(db, call[1].tasks[i].session)
    /\ call' = <<[call[1] EXCEPT
                    !.tasks[i].session = AfterCommit(call[1].tasks[i].session),
                    !.tasks[i].pc = "read_run"]>>
    /\ clock' = clock
    /\ UNCHANGED task_frame

\* get_latest_discovery_run lines 89-100: the latest completed run of the
\* project; the query can raise, which the handler of line 253 catches
TaskReadRun(i) ==
    /\ call[1].tasks[i].pc = "read_run"
    /\ LET task == call[1].tasks[i]
           completed == {r \in db.runs : /\ r.project_id = task.session.run[1].project_id
                                         /\ r.status = "completed"}
           run == CHOOSE r \in completed :
                      \A o \in completed : o.completed_at <= r.completed_at
       IN  \/ /\ call' = <<[call[1] EXCEPT !.tasks[i] =
                      Handled(task, [type |-> "OperationalError",
                                     msg |-> "read-back failed"], clock)]>>
              /\ clock' = clock + 1
           \/ /\ call' = <<[call[1] EXCEPT !.tasks[i] =
                      IF completed = {}
                      THEN [task EXCEPT !.pc = "returned"]
                      ELSE [task EXCEPT !.found = <<run>>, !.pc = "read_clusters"]]>>
              /\ clock' = clock
    /\ db' = db
    /\ UNCHANGED task_frame

\* get_latest_discovery_run lines 102-109: the clusters of the run found
TaskReadClusters(i) ==
    /\ call[1].tasks[i].pc = "read_clusters"
    /\ LET task == call[1].tasks[i]
           cs == SelectSeq(db.clusters, LAMBDA c : c.run_id = task.found[1].id)
       IN  call' = <<[call[1] EXCEPT !.tasks[i].found_clusters = SortByBadnessRate(cs),
                                     !.tasks[i].pc = "read_slices"]>>
    /\ UNCHANGED <<db, clock>>
    /\ UNCHANGED task_frame

\* get_latest_discovery_run lines 111-121: the slices of the run found, and
\* the record returned at line 251
TaskReadSlices(i) ==
    /\ call[1].tasks[i].pc = "read_slices"
    /\ LET task == call[1].tasks[i]
           sls == SelectSeq(db.slices, LAMBDA sl : sl.run_id = task.found[1].id)
       IN  call' = <<[call[1] EXCEPT
                        !.tasks[i].ret =
                            << _model_to_gql_run(task.found[1], task.found_clusters,
                                                 Prefix(SortByLift(sls), TopSlices)) >>,
                        !.tasks[i].pc = "returned"]>>
    /\ UNCHANGED <<db, clock>>
    /\ UNCHANGED task_frame

\* lines 258-261: await db.commit(); return the failed run
TaskHandlerCommit(i) ==
    /\ call[1].tasks[i].pc = "handler_commit"
    /\ db' = Committed(db, call[1].tasks[i].session)
    /\ call' = <<[call[1] EXCEPT
                    !.tasks[i].session = AfterCommit(call[1].tasks[i].session),
                    !.tasks[i].ret =
                        << _model_to_gql_run(call[1].tasks[i].session.run[1],
                                             <<>>, <<>>) >>,
                    !.tasks[i].pc = "returned"]>>
    /\ clock' = clock
    /\ UNCHANGED task_frame

\* the invocations for one project have been called, each with its own
\* session, and none has run yet
InitConcurrent ==
    /\ entry = "concurrent"
    /\ NoRun
    /\ call = <<[tasks |-> [i \in 1..MaxInvocations |-> NewTask], next_id |-> 1]>>

\* the event loop resumes one invocation and runs it to its next await
NextConcurrent ==
    \E i \in 1..MaxInvocations :
        \/ TaskCreateRun(i)
        \/ TaskFlush(i)
        \/ TaskRunPipeline(i)
        \/ TaskCommit(i)
        \/ TaskReadRun(i)
        \/ TaskReadClusters(i)
        \/ TaskReadSlices(i)
        \/ TaskHandlerCommit(i)

SpecConcurrent == InitConcurrent /\ [][NextConcurrent]_vars

\* run_trace_discovery(db, project_id) is called
Init ==
    /\ entry = "helper"
    /\ pc = "start"
    /\ cfg = DefaultConfig
    /\ InitPipelineVars
    /\ session = EmptySession
    /\ db = EmptyDb
    /\ ret = <<>>
    /\ clock = 0
    /\ prev = <<>>
    /\ call = <<>>

Next ==
    \/ CreateRun
    \/ Flush
    \/ ProjectQuery
    \/ ImportPipeline
    \/ RunPipeline
    \/ StoreReport
    \/ Commit
    \/ ReadBack
    \/ Handler
    \/ HandlerCommit

Spec == Init /\ [][Next]_vars

NextCancel == Next \/ Cancel

SpecCancel == Init /\ [][NextCancel]_vars

-----------------------------------------------------------------------------
(* Properties *)

\* C1: IssueDiscoveryPipeline.run raises InsufficientData and returns no
\* report whenever the fetched span table is empty, whenever the unique trace
\* ids are fewer than min_traces, or whenever the traces with extracted
\* features are fewer than min_traces; in every other case it returns exactly
\* one DiscoveryReport.
C1_InsufficientDataOrReport ==
    pc \in {"returned", "raised"} =>
        LET ids == get_unique_trace_ids(spans_df)
            kept == IF Len(ids) > cfg.max_traces
                    THEN Prefix(ids, cfg.max_traces) ELSE ids
            gated == \/ Len(Rows(spans_df)) = 0
                     \/ Len(ids) < cfg.min_traces
                     \/ Len(Extracted(spans_df, kept, annotations_df)) < cfg.min_traces
        IN  IF gated
            THEN pc = "raised" /\ exc.type = "InsufficientDataError" /\ report = <<>>
            ELSE pc = "returned" /\ Len(report) = 1

\* run() has passed all three gates with two traces and KMeans, asked for
\* three clusters, has raised ValueError
C1_PassedGatesRaised ==
    /\ pc = "raised"
    /\ exc.type = "ValueError"
    /\ cfg.cluster_method = "kmeans"
    /\ Len(features) = 2
    /\ Len(features) >= cfg.min_traces
    /\ ~build_feature_matrix_raises(features)

\* C2: if any exception is raised inside run_trace_discovery after the run
\* record was created (InsufficientData and a missing discovery module
\* included), the run is persisted with status failed and an error_message,
\* and the returned record is that failed run with no clusters and no slices.
C2_ExceptionPersistsFailed ==
    (pc = "returned" /\ exc # NoExc) =>
        /\ \E r \in db.runs : /\ r.id = session.run[1].id
                              /\ r.status = "failed"
                              /\ r.error_message # ""
                              /\ ret = << _model_to_gql_run(r, <<>>, <<>>) >>
        /\ \A r \in db.runs : r.id = session.run[1].id => r.status = "failed"

\* the import of the discovery package has failed and the call has returned
\* with the run committed as completed
C2_ImportErrorCompleted ==
    /\ pc = "returned"
    /\ exc.type = "ImportError"
    /\ \E r \in db.runs : r.status = "completed"
                          /\ r.error_message = "Discovery module not installed"
    /\ Len(ret) = 1 /\ ret[1].status = "completed"

\* C3: no run ends with a partial report: in every persisted state, a run
\* with any committed cluster or slice row is committed as completed with all
\* clusters of its report and its top (at most 20) slices, and a run
\* committed as failed has no cluster or slice rows.
C3_NoPartialReport ==
    /\ \A i \in 1..Len(db.clusters) : \E r \in db.runs : r.id = db.clusters[i].run_id
    /\ \A i \in 1..Len(db.slices) : \E r \in db.runs : r.id = db.slices[i].run_id
    /\ \A r \in db.runs :
          LET cs == SelectSeq(db.clusters, LAMBDA c : c.run_id = r.id)
              sls == SelectSeq(db.slices, LAMBDA sl : sl.run_id = r.id)
          IN  /\ (cs # <<>> \/ sls # <<>>) =>
                    /\ r.status = "completed"
                    /\ Len(report) = 1
                    /\ cs = ClusterRows(r.id, report[1])
                    /\ sls = SliceRows(r.id, report[1])
                    /\ Len(sls) <= TopSlices
              /\ r.status = "failed" => cs = <<>> /\ sls = <<>>

\* the read-back after the commit has raised, and the handler has committed
\* the run as failed over the slice rows committed before
C3_FailedRunWithRows ==
    /\ pc = "returned"
    /\ exc.type = "OperationalError"
    /\ \E r \in db.runs :
          /\ r.status = "failed"
          /\ \E i \in 1..Len(db.slices) : db.slices[i].run_id = r.id

\* C4: a discovery run cancelled at an I/O point leaves no partial report and
\* is observed in the persistence layer as a run record with terminal status
\* failed.
C4_CancelledRunFailed ==
    pc = "cancelled" =>
        /\ \E r \in db.runs : r.status = "failed"
        /\ \A r \in db.runs : r.status = "failed"
        /\ db.clusters = <<>> /\ db.slices = <<>>

\* the task was cancelled while awaiting the first commit: nothing of the
\* run is persisted
C4_CancelledNoRecord ==
    /\ pc = "cancelled"
    /\ exc.type = "CancelledError"
    /\ db.runs = {}
    /\ Len(report) = 1

\* C5: when the trace-store span fetch raises, the run is aborted: no report
\* is produced, no later stage (annotation fetch, feature extraction,
\* embedding, clustering, slicing) runs, and the persisted run ends with
\* status failed.
C5_SpanFetchFailureAborts ==
    io.spans_raised =>
        /\ report = <<>>
        /\ stages = <<"fetch_spans">>
        /\ exc.type = "InsufficientDataError"
        /\ pc \in {"handler", "handler_commit", "returned"}
        /\ pc = "returned" =>
              /\ \E r \in db.runs : r.id = session.run[1].id /\ r.status = "failed"
              /\ \A r \in db.runs : r.status = "failed"
              /\ db.clusters = <<>> /\ db.slices = <<>>

\* the span fetch has raised and the call has returned
C5_SpanFetchRaisedReturned ==
    /\ io.spans_raised
    /\ pc = "returned"
    /\ \E r \in db.runs : r.status = "failed" /\ r.error_message # ""
    /\ Len(ret) = 1 /\ ret[1].status = "failed"

\* C6: when the annotation fetch raises, the pipeline continues without
\* annotations and still produces a report (given the trace gates pass);
\* every trace then has quality_score and grounding_score absent, so its
\* quality_eval and grounding_eval signals are both exactly 0.5.
C6_AnnotationFailureNeutral ==
    io.annotations_raised =>
        /\ annotations_df = NoAnnotations
        /\ \A i \in 1..Len(features) :
              IsNone(features[i].quality_score) /\ IsNone(features[i].grounding_score)
        /\ \A i \in 1..Len(badness_scores) :
              /\ badness_scores[i].signals.quality_eval = Half
              /\ badness_scores[i].signals.grounding_eval = Half
        /\ pc = "raised" => exc.type = "InsufficientDataError"
        /\ pc = "returned" => Len(report) = 1

\* the annotation fetch has raised, the gates have passed, the signals are
\* neutral, and run() has raised from the clustering stage
C6_AnnotationFailureNoReport ==
    /\ io.annotations_raised
    /\ pc = "raised"
    /\ exc.type = "ValueError"
    /\ report = <<>>
    /\ Len(badness_scores) >= cfg.min_traces
    /\ \A i \in 1..Len(badness_scores) :
          badness_scores[i].signals.quality_eval = Half

\* C7: an embedding failure never aborts a run: a failing single embedding
\* call yields the zero vector for that trace and the loop continues with the
\* remaining traces; a missing API credential skips the embedding stage
\* entirely; in both cases the run proceeds to badness, clustering, slicing
\* and returns a report.
C7_EmbeddingFailureNeverAborts ==
    /\ io.embed = "called" =>
          \A i \in 1..Len(features) :
              IF i \in io.embed_failed
              THEN features[i].text_embedding = [dim |-> ZeroVectorDim, src |-> "zeros"]
              ELSE /\ features[i].text_embedding # NoEmbedding
                   /\ features[i].text_embedding.src # "zeros"
    /\ io.embed = "no_key" =>
          /\ embedding_cache = <<>>
          /\ \A i \in 1..Len(features) : features[i].text_embedding = NoEmbedding
    /\ (io.embed = "no_key" \/ (io.embed = "called" /\ io.embed_failed # {})) =>
          /\ pc # "raised"
          /\ pc = "returned" =>
                /\ Len(report) = 1
                /\ SubSeq(stages, Len(stages) - 3, Len(stages))
                       = <<"badness", "cluster", "slices", "report">>

\* one embedding call of text-embedding-3-large has failed, its trace holds
\* the zero vector of 1536 entries beside vectors of 3072, and the run has
\* raised ValueError when the feature matrix was built
C7_ZeroVectorAbortsRun ==
    /\ pc = "raised"
    /\ exc.type = "ValueError"
    /\ io.embed = "called"
    /\ io.embed_failed # {}
    /\ build_feature_matrix_raises(features)
    /\ Len(features) = 3
    /\ report = <<>>

\* C8: for every trace of every batch processed by the pipeline (features
\* from extract_features_from_spans over any span table and any annotations
\* table, scored by compute_badness_batch with the configured weights), the
\* BadnessScore.score satisfies 0 <= score <= 1.
C8_ScoreInUnitInterval ==
    \A i \in 1..Len(badness_scores) :
        /\ QLe(QZero, badness_scores[i].score)
        /\ QLe(badness_scores[i].score, QOne)

\* a quality annotation with score 5 on a trace has given it a negative
\* badness score
C8_NegativeScore ==
    \E i \in 1..Len(badness_scores) :
        /\ QLt(badness_scores[i].score, QZero)
        /\ features[i].quality_score = QInt(5)
        /\ badness_scores[i].signals.quality_eval = QInt(-4)

\* C9: for every Slice returned by rank_slices, lift equals
\* badness_rate / baseline_rate, where badness_rate is the fraction of the
\* slice's scored traces with score > 0.5 and baseline_rate is the value
\* stored in the same Slice.
C9_LiftIsRatio ==
    \A i \in 1..Len(slices) :
        LET sl == slices[i]
            scored == SelectSeq(sl.trace_ids,
                                LAMBDA t : HasScore(badness_scores, t))
            bad == SelectSeq(scored,
                             LAMBDA t : QLt(Half, ScoreOf(badness_scores, t)))
        IN  /\ Len(scored) > 0
            /\ sl.badness_rate = Q(Len(bad), Len(scored))
            /\ sl.lift = QDiv(sl.badness_rate, sl.baseline_rate)

\* rank_slices has returned a slice that is worse than the population and
\* one that is better
C9_SlicesAboveAndBelow ==
    /\ pc = "report"
    /\ \E i \in 1..Len(slices) :
          /\ QLt(QOne, slices[i].lift)
          /\ QLt(QZero, slices[i].baseline_rate)
          /\ QLt(slices[i].baseline_rate, QOne)
    /\ \E i \in 1..Len(slices) : QLt(slices[i].lift, QOne)

\* C10: outputs are ordered: cluster_traces returns clusters with
\* non-increasing badness_rate, rank_slices returns slices with
\* non-increasing lift, and the report's top_slices is the prefix of at most
\* 20 slices of that lift-ordered list.
C10_OrderedOutputs ==
    /\ \A i \in 1..(Len(clusters) - 1) :
          QLe(clusters[i + 1].badness_rate, clusters[i].badness_rate)
    /\ \A i \in 1..(Len(slices) - 1) :
          QLe(slices[i + 1].lift, slices[i].lift)
    /\ Len(report) = 1 =>
          /\ Len(report[1].top_slices) <= TopSlices
          /\ Len(report[1].top_slices) <= Len(slices)
          /\ Len(report[1].top_slices) = TopSlices
                \/ Len(report[1].top_slices) = Len(slices)
          /\ \A i \in 1..Len(report[1].top_slices) :
                report[1].top_slices[i] = slices[i]
          /\ report[1].clusters = clusters

\* a report whose top_slices cuts a longer list of slices of unequal lift,
\* with clusters of unequal badness_rate
C10_ReportCutsRankedSlices ==
    /\ Len(report) = 1
    /\ Len(slices) > TopSlices
    /\ Len(report[1].top_slices) = TopSlices
    /\ \E i \in 1..(Len(slices) - 1) : slices[i].lift # slices[i + 1].lift
    /\ \E i \in 1..(Len(clusters) - 1) :
          clusters[i].badness_rate # clusters[i + 1].badness_rate

C12_ReportConsistent ==
    Len(report) = 1 =>
        LET rep == report[1]
            n == Len(badness_scores)
        IN  /\ rep.total_traces = Len(features)
            /\ n = Len(features)
            /\ QMul(rep.baseline_badness, QInt(n))
                   = QSum([i \in 1..n |-> badness_scores[i].score])
            /\ rep.num_bad_traces
                   = Cardinality({i \in 1..n : QLt(Half, badness_scores[i].score)})
            /\ Len(rep.top_slices) <= TopSlices
            /\ rep.num_clusters = Len(rep.clusters)
            /\ rep.num_significant_slices
                   = Cardinality({i \in 1..Len(rep.top_slices) :
                                     rep.top_slices[i].p_value = "<0.05"})

\* a report over a batch with bad traces, a cluster, and more than 20
\* significant slices of which it keeps 20
C12_ReportOfLargeBatch ==
    /\ Len(report) = 1
    /\ Len(slices) > TopSlices
    /\ \A i \in 1..Len(slices) : slices[i].p_value = "<0.05"
    /\ report[1].num_significant_slices = TopSlices
    /\ report[1].num_bad_traces > 0
    /\ report[1].num_bad_traces < report[1].total_traces
    /\ report[1].num_clusters >= 1

\* C13: two successive runs over the same batch with the default
\* configuration, the embedding provider answering in both and every call of
\* the second run succeeding, give the same scores, the same clusters (members
\* and order) and the same slices, whatever the embedding cache held before
\* the first run and whichever calls of the first run failed.
C13_RepeatedRunIdentical ==
    (/\ prev # <<>>
     /\ pc = "returned"
     /\ prev[1].io.embed = "called"
     /\ io.embed = "called"
     /\ io.embed_failed = {}) =>
        /\ badness_scores = prev[1].badness_scores
        /\ clusters = prev[1].clusters
        /\ slices = prev[1].slices

\* a second run whose clusters differ from the first's although scores and
\* slices agree: the first run's failed call left no cache entry, so the
\* second run clusters a different feature matrix
C13_SecondRunClustersDiffer ==
    /\ prev # <<>>
    /\ pc = "returned"
    /\ prev[1].io.embed = "called"
    /\ prev[1].io.embed_failed = {1}
    /\ io.embed = "called"
    /\ io.embed_failed = {}
    /\ io.clustering[1].X # prev[1].io.clustering[1].X
    /\ clusters # prev[1].clusters
    /\ badness_scores = prev[1].badness_scores
    /\ slices = prev[1].slices

\* C14: every cluster returned by cluster_traces has as many trace ids as
\* its size, at least one; its avg_badness is the mean of the scores of
\* exactly its traces and its badness_rate the fraction of them that score
\* above 0.5.
C14_ClusterStatistics ==
    "cluster" \in Range(stages) =>
        \A c \in 1..Len(clusters) :
            LET C == clusters[c]
                M == {i \in 1..Len(features) : features[i].trace_id \in Range(C.trace_ids)}
                m == SelectSeq(List([i \in 1..Len(features) |-> i]), LAMBDA i : i \in M)
                sc == List([j \in 1..Len(m) |-> badness_scores[m[j]].score])
            IN  /\ Len(C.trace_ids) = C.size
                /\ C.size >= 1
                /\ Cardinality(M) = C.size
                /\ \A i \in M : badness_scores[i].trace_id = features[i].trace_id
                /\ QMul(C.avg_badness, QInt(C.size)) = QSum(sc)
                /\ QMul(C.badness_rate, QInt(C.size)) =
                       QInt(Cardinality({i \in M : QLt(Half, badness_scores[i].score)}))

\* a cluster holding bad and good traces next to traces left as noise, its
\* statistics differing from those of the whole batch
C14_MixedClusterBesideNoise ==
    /\ "cluster" \in Range(stages)
    /\ \E c \in 1..Len(clusters) :
          /\ clusters[c].size >= 2
          /\ clusters[c].size < Len(features)
          /\ QLt(QZero, clusters[c].badness_rate)
          /\ QLt(clusters[c].badness_rate, QInt(1))
          /\ clusters[c].badness_rate #
                 Q(Cardinality({i \in 1..Len(features) :
                                   QLt(Half, badness_scores[i].score)}), Len(features))

\* C15: example_trace_ids has at most 5 entries, each a member of the
\* cluster, and when the cluster has more than 5 members they are the 5
\* members with the smallest Euclidean distance to the cluster centroid.
C15_ExamplesClosestToCentroid ==
    (entry = "select" /\ call[1].out # <<>>) =>
        LET X == call[1].X
            m == Len(X)
            ids == {call[1].features[i].trace_id : i \in 1..m}
            ex == call[1].out[1]
            \* the sum of column c over the first i members
            RECURSIVE total(_, _)
            total(c, i) == IF i = 0 THEN 0 ELSE total(c, i - 1) + X[i][c]
            sums == List([c \in 1..Columns |-> total(c, m)])
            \* m^2 times the squared Euclidean distance of member i to the
            \* mean row, over the first c columns
            RECURSIVE sq(_, _)
            sq(i, c) == IF c = 0 THEN 0
                        ELSE sq(i, c - 1)
                             + (m * X[i][c] - sums[c]) * (m * X[i][c] - sums[c])
            far == List([i \in 1..m |-> sq(i, Columns)])
            chosen == {i \in 1..m : call[1].features[i].trace_id \in Range(ex)}
        IN  /\ Len(ex) <= 5
            /\ Range(ex) \subseteq ids
            /\ m > 5 =>
                  /\ Len(ex) = 5
                  /\ Cardinality(chosen) = 5
                  /\ \A i \in chosen, j \in (1..m) \ chosen : far[i] <= far[j]

\* a cluster of six whose third member is strictly the farthest from the
\* centroid and is the one left out
C15_FarthestLeftOut ==
    /\ entry = "select"
    /\ call[1].out # <<>>
    /\ Len(call[1].X) = 6
    /\ call[1].X[3] = <<1, 1>>
    /\ \A i \in {1, 2, 4, 5} : call[1].X[i] = <<0, 0>>
    /\ call[1].X[6] = <<0, 1>>
    /\ Range(call[1].out[1]) = {101, 102, 104, 105, 106}

\* C16: scaling all badness weights by a constant c > 0 leaves every trace's
\* score unchanged, for every feature set and every weight setting with
\* positive total weight.
C16_ScalingKeepsScores ==
    (entry = "scale" /\ call[1].out # <<>>) =>
        \A i \in 1..Len(call[1].features) :
            call[1].out[1].scaled[i].score = call[1].out[1].base[i].score

\* whole-number weights scaled by 3, every scaled weight exact, and a trace
\* whose score changed
C16_ExactScalingChangesScore ==
    /\ entry = "scale"
    /\ call[1].out # <<>>
    /\ call[1].c = QInt(3)
    /\ \A k \in DOMAIN call[1].weights :
          ScaledWeights(call[1].weights, call[1].c)[k] = QMul(call[1].c, call[1].weights[k])
    /\ \E i \in 1..Len(call[1].features) :
          call[1].out[1].scaled[i].score # call[1].out[1].base[i].score

\* C17: in every Slice returned by rank_slices, baseline_rate is the
\* fraction of all scored traces with score > 0.5, or 0.001 when that
\* fraction is 0; it is never 0, and lift is defined (0 for every slice when
\* no trace is bad).
C17_BaselineNeverZero ==
    "slices" \in Range(stages) =>
        LET n == Len(features)
            bad == Cardinality({i \in 1..n : QLt(Half, badness_scores[i].score)})
        IN  \A i \in 1..Len(slices) :
                /\ bad > 0 => QMul(slices[i].baseline_rate, QInt(n)) = QInt(bad)
                /\ bad = 0 => slices[i].baseline_rate = Q(1, 1000)
                /\ slices[i].baseline_rate # QZero
                /\ ~IsNone(slices[i].lift)
                /\ bad = 0 => slices[i].lift = QZero

\* rank_slices has returned slices of a batch without a bad trace
C17_SlicesWithoutBadTrace ==
    /\ "slices" \in Range(stages)
    /\ Len(slices) >= 2
    /\ \A i \in 1..Len(features) : ~QLt(Half, badness_scores[i].score)
    /\ \A i \in 1..Len(slices) : slices[i].baseline_rate = Q(1, 1000)

\* C18: in any sequence of embed_text calls, a call whose cache key (model,
\* first 500 characters of the text) is in the cache returns exactly the
\* vector that was inserted under that key, without calling the provider;
\* no call removes or replaces an entry, and a failed call leaves the cache
\* as it was.
C18_CacheHitReturnsInserted ==
    entry = "embed" =>
        LET log == call[1].log
            After(i) == IF i < Len(log) THEN log[i + 1].before ELSE embedding_cache
        IN  \A i \in 1..Len(log) :
                /\ CacheKey(log[i].model, log[i].text) =
                       log[i].model \o ":" \o SubSeq(log[i].text, 1,
                           IF Len(log[i].text) < 500 THEN Len(log[i].text) ELSE 500)
                /\ CacheKey(log[i].model, log[i].text) \in DOMAIN log[i].before =>
                       /\ log[i].ret = call[1].inserted[log[i].cache_key]
                       /\ ~log[i].provider_called
                /\ \A k \in DOMAIN log[i].before :
                       k \in DOMAIN After(i) /\ After(i)[k] = log[i].before[k]
                /\ log[i].failed => After(i) = log[i].before

\* a failed call, then a successful call for the same text, then a call for
\* a text with the same first 500 characters that is answered from the cache
C18_HitAfterFailureAndInsert ==
    /\ entry = "embed"
    /\ Len(call[1].log) = 3
    /\ call[1].log[1].failed
    /\ call[1].log[1].before = <<>>
    /\ call[1].log[2].text = call[1].log[1].text
    /\ call[1].log[2].model = call[1].log[1].model
    /\ call[1].log[2].provider_called /\ ~call[1].log[2].failed
    /\ call[1].log[3].text # call[1].log[2].text
    /\ ~call[1].log[3].provider_called
    /\ call[1].log[3].ret = call[1].log[2].ret

\* C19: each categorical attribute of a TraceFeatures (intent, route, model,
\* provider, prompt_version) is a non-empty string, "unknown" when it cannot
\* be derived, and prompt_version equals model.
C19_AttributesNonEmpty ==
    (entry = "extract" /\ call[1].out # <<>> /\ call[1].out[1].value # <<>>) =>
        LET f == call[1].out[1].value[1]
            rows == Rows(call[1].spans_df)
            Underivable(col) ==
                \/ col \notin call[1].spans_df.cols
                \/ \A i \in 1..Len(rows) : rows[i][col] \in {"", "nan"}
        IN  /\ \A a \in {"intent", "route", "model", "provider", "prompt_version"} :
                   f[a] # ""
            /\ f.prompt_version = f.model
            /\ Underivable("model_name") => f.model = "unknown"
            /\ Underivable("provider") => f.provider = "unknown"

\* features of a trace whose spans carry an empty model and provider: the
\* provider was replaced by "unknown", the model was not
C19_EmptyModelKept ==
    /\ entry = "extract"
    /\ call[1].out # <<>>
    /\ call[1].out[1].value # <<>>
    /\ call[1].out[1].value[1].model = ""
    /\ call[1].out[1].value[1].prompt_version = ""
    /\ call[1].out[1].value[1].provider = "unknown"
    /\ call[1].out[1].value[1].intent = "ping"

\* C20: extract_features_from_spans never propagates an exception: for a
\* span table with any column missing it treats the column as absent and
\* returns a TraceFeatures or None.
C20_ExtractNeverRaises ==
    (entry = "extract" /\ call[1].out # <<>>) =>
        /\ ~call[1].out[1].raised
        /\ Len(call[1].out[1].value) <= 1

\* the call has raised KeyError on a table that lacks parent_id only, while
\* the trace is in the table
C20_MissingParentIdRaised ==
    /\ entry = "extract"
    /\ call[1].out # <<>>
    /\ call[1].out[1].raised
    /\ call[1].spans_df.cols = AllCols \ {"parent_id"}
    /\ call[1].trace_id = 1

\* every trace of the batch has the same values for all slice attributes,
\* and the batch is large enough to make a slice
IdenticalAttributes ==
    /\ "slices" \in Range(stages)
    /\ Len(features) >= cfg.min_slice_size
    /\ Len(features) >= 1
    /\ \A i \in 1..Len(features) :
          KeyOf(features[i], cfg.slice_attributes) = KeyOf(features[1], cfg.slice_attributes)

WholePopulationSlices ==
    LET cands == Candidates(features, badness_scores, cfg.slice_attributes,
                            cfg.min_slice_size, cfg.max_slice_depth)
        total == Len(ScoresOf(badness_scores,
                              [i \in 1..Len(features) |-> features[i].trace_id]))
    IN  {cands[i] : i \in {j \in 1..Len(cands) : cands[j].size = total}}

AnySignificant ==
    LET cands == Candidates(features, badness_scores, cfg.slice_attributes,
                            cfg.min_slice_size, cfg.max_slice_depth)
    IN  \E i \in 1..Len(cands) : IsSignificant(cands[i])

C22_WholePopulationSliceFilteredOut ==
    /\ pc = "report"
    /\ AnySignificant
    /\ \E sl \in WholePopulationSlices : sl \notin Range(slices)

C23_ThirtyIdenticalGiveThree ==
    (/\ entry = "kmeans" /\ call[1].out # <<>>
     /\ call[1].n = 30 /\ call[1].identical /\ call[1].out[1].reached) =>
        /\ call[1].out[1].k = 3
        /\ call[1].out[1].path = "fallback"

\* C23 amended: for 30 traces with identical features, method kmeans and
\* n_clusters unspecified, the elbow estimate tries the five candidates
\* k = 2..6, finds every inertia 0 and returns k = 2 through the elbow
\* computation (argmax of the all-zero second differences is 0, plus 2).
C23_ThirtyIdenticalGiveTwo ==
    (/\ entry = "kmeans" /\ call[1].out # <<>>
     /\ call[1].n = 30 /\ call[1].identical /\ call[1].out[1].reached) =>
        /\ call[1].out[1].K_range = <<2, 3, 4, 5, 6>>
        /\ \A i \in 1..Len(call[1].out[1].inertias) : call[1].out[1].inertias[i] = 0
        /\ call[1].out[1].k = 2
        /\ call[1].out[1].path = "elbow"
        /\ call[1].out[1].k \in _estimate_k(call[1].n, MaxK(call[1].n))
        /\ ~call[1].out[1].raises

\* the estimate for 30 identical rows has been computed
C23_ThirtyIdenticalEstimated ==
    /\ entry = "kmeans" /\ call[1].out # <<>>
    /\ call[1].n = 30 /\ call[1].identical /\ call[1].out[1].reached
    /\ call[1].out[1].k = 2

\* C24: when the pipeline runs with skip_embeddings = true, the feature
\* matrix used for clustering contains no embedding block: its width is 9
\* plus the number of selected n-grams (at most 20), at most 29 columns.
C24_NoEmbeddingBlockWhenSkipped ==
    (cfg.skip_embeddings /\ io.clustering # <<>>) =>
        /\ io.clustering[1].width = build_feature_matrix_width(features, FALSE)
        /\ io.clustering[1].width <= ScalarColumns + TopNgrams

\* the traces of the batch whose spans have no attributes.obs.route value, no
\* span name matching ._execute and no tool spans
Routeless(i) ==
    LET trace_spans == SelectSeq(Rows(spans_df),
                                 LAMBDA r : r.trace_id = features[i].trace_id)
    IN  /\ \A j \in 1..Len(trace_spans) :
              /\ trace_spans[j].obs_route \in {"", "nan"}
              /\ ~IsAgentSpan(trace_spans[j])
              /\ ~IsToolSpan(trace_spans[j])

\* the root span extract_features_from_spans picks for a trace (lines 86-87)
RootSpanOf(i) ==
    LET trace_spans == SelectSeq(Rows(spans_df),
                                 LAMBDA r : r.trace_id = features[i].trace_id)
        root_spans == SelectSeq(trace_spans, LAMBDA r : r.parent_null)
    IN  IF Len(root_spans) = 0 THEN trace_spans[1] ELSE root_spans[1]

\* the depth-1 candidate slices on route with the given value
RouteSlices(value) ==
    LET cands == Candidates(features, badness_scores, cfg.slice_attributes,
                            cfg.min_slice_size, cfg.max_slice_depth)
    IN  {cands[i] : i \in {j \in 1..Len(cands) :
                              cands[j].attrs = <<"route">> /\ cands[j].key = <<value>>}}

\* C25 as stated: a trace with no attributes.obs.route value, no ._execute
\* span and no tool spans gets route "unknown"; a batch made only of such
\* traces has the depth-1 slice {route: unknown} with size N and lift 1.0.
C25_RouteUnknown ==
    "slices" \in Range(stages) =>
        /\ \A i \in 1..Len(features) : Routeless(i) => features[i].route = "unknown"
        /\ ((\A i \in 1..Len(features) : Routeless(i))
                /\ Len(features) >= cfg.min_slice_size /\ Len(features) >= 1) =>
               \E sl \in RouteSlices("unknown") :
                   sl.size = Len(features) /\ sl.lift = QOne

\* C25 amended: such a trace gets the span_kind of its root span as route;
\* a batch made only of such traces with one root span kind has the depth-1
\* slice {route: that kind} with size N, and lift 1.0 when some trace is bad
\* (0 when none is); there is no slice {route: unknown} unless a root span
\* kind is itself the string "unknown".
C25_RouteIsRootSpanKind ==
    "slices" \in Range(stages) =>
        /\ \A i \in 1..Len(features) :
               Routeless(i) => /\ features[i].route = RootSpanOf(i).span_kind
                               /\ features[i].route # "unknown"
        /\ ((\A i \in 1..Len(features) :
                  Routeless(i) /\ RootSpanOf(i).span_kind = RootSpanOf(1).span_kind)
                /\ Len(features) >= cfg.min_slice_size /\ Len(features) >= 1) =>
               /\ RouteSlices("unknown") = {}
               /\ \E sl \in RouteSlices(RootSpanOf(1).span_kind) :
                      /\ sl.size = Len(features)
                      /\ sl.lift = IF \E i \in 1..Len(features) :
                                          QLt(Half, badness_scores[i].score)
                                   THEN QOne ELSE QZero

\* a batch of two traces without route, agent span or tool span, one of them
\* bad, whose route slice has lift 1.0
C25_RoutelessBatchSliced ==
    /\ "slices" \in Range(stages)
    /\ Len(features) = 2
    /\ \A i \in 1..Len(features) : Routeless(i)
    /\ \E i \in 1..Len(features) : QLt(Half, badness_scores[i].score)
    /\ \E sl \in RouteSlices("CHAIN") : sl.size = 2 /\ sl.lift = QOne

\* a step of the embedding, badness, clustering, slicing or report stage
\* keeps the records and the cache
AllStagesKeep ==
    pc \in {"embed", "badness", "cluster", "slices", "report"} =>
        /\ features' = features
        /\ embedding_cache' = embedding_cache

\* C26 as stated: no pipeline stage mutates shared state or a value produced
\* by an earlier stage: the TraceFeatures records and every process-wide
\* variable are unchanged by the embedding, badness, clustering, slicing and
\* report stages.
C26_StagesMutateNothing == [][AllStagesKeep]_vars

\* a step of the badness, clustering, slicing or report stage keeps the
\* records and the cache
LaterStagesKeep ==
    pc \in {"badness", "cluster", "slices", "report"} =>
        /\ features' = features
        /\ embedding_cache' = embedding_cache

\* a step of the embedding stage changes text_embedding only, and keeps the
\* entries of the cache
EmbeddingStageSetsOnly ==
    pc = "embed" =>
        /\ Len(features') = Len(features)
        /\ \A i \in 1..Len(features) :
               [features'[i] EXCEPT !.text_embedding = features[i].text_embedding]
                   = features[i]
        /\ \A key \in DOMAIN embedding_cache :
               /\ key \in DOMAIN embedding_cache'
               /\ embedding_cache'[key] = embedding_cache[key]

\* C26 amended: the badness, clustering, slicing and report stages leave the
\* TraceFeatures records and the process-wide embedding cache unchanged; the
\* embedding stage sets text_embedding of the records in place, changing no
\* other field, and adds entries to the embedding cache without changing
\* the entries it holds.
C26_OnlyEmbeddingMutates == [][LaterStagesKeep /\ EmbeddingStageSetsOnly]_vars

\* a run whose embedding stage has set the embeddings of the records and
\* filled the cache, and whose later stages have run
C26_EmbeddedAndReported ==
    /\ "report" \in Range(stages)
    /\ io.embed = "called"
    /\ Len(features) >= 1
    /\ features[1].text_embedding # NoEmbedding
    /\ embedding_cache # <<>>

\* a step keeps the status and error_message of every run committed as
\* completed
CompletedStays ==
    \A r \in db.runs :
        r.status = "completed" =>
            \E q \in db'.runs : /\ q.id = r.id
                                 /\ q.status = "completed"
                                 /\ q.error_message = r.error_message

\* C28: the status completed is terminal for a persisted run: once a run has
\* been committed with status completed, no later step of
\* run_trace_discovery (a failure of the final read-back included) changes
\* its status or sets its error_message.
C28_CompletedIsTerminal == [][CompletedStays]_vars

\* C27: when two or more run_trace_discovery invocations for the same
\* project interleave at their await points, each invocation that completes
\* successfully returns the run record it created itself (same run id) with
\* that run's own clusters and slices.
C27_ReturnsOwnRun ==
    entry = "concurrent" =>
        \A i \in 1..MaxInvocations :
            LET task == call[1].tasks[i]
            IN  (task.pc = "returned" /\ task.own # <<>> /\ task.ret # <<>>
                 /\ task.ret[1].status = "completed") =>
                    /\ task.ret[1].id = task.session.run[1].id
                    /\ task.ret[1].clusters = SortByBadnessRate(task.own[1].clusters)
                    /\ task.ret[1].top_slices = SortByLift(task.own[1].slices)

\* C29: whenever cluster_traces reaches KMeans with n_clusters unspecified
\* (method kmeans, len(features) >= min_cluster_size), the estimated k
\* satisfies 2 <= k <= number of traces, and k <= min(10, n // 5) whenever
\* that bound is at least 2, so KMeans never fails because k exceeds the
\* number of samples.
C29_EstimatedKFits ==
    (entry = "kmeans" /\ call[1].out # <<>> /\ call[1].out[1].reached) =>
        /\ 2 <= call[1].out[1].k
        /\ call[1].out[1].k <= call[1].n
        /\ MaxK(call[1].n) >= 2 => call[1].out[1].k <= MaxK(call[1].n)
        /\ ~call[1].out[1].raises

\* the spans of the trace all start before the report's start or after its
\* end
OutsideTimeRange(trace_id) ==
    LET trace_spans == SelectSeq(Rows(spans_df), LAMBDA r : r.trace_id = trace_id)
    IN  \A j \in 1..Len(trace_spans) :
           \/ trace_spans[j].start_time < report[1].time_range[1]
           \/ trace_spans[j].start_time > report[1].time_range[2]

\* C30: every trace counted in a returned report lies inside the report's
\* time_range: a trace whose spans all start before the resolved start or
\* after the resolved end (end = now when absent, start = end - days_back
\* when absent) is never included in total_traces, clusters or slices.
C30_ReportedTracesInRange ==
    (entry = "range" /\ Len(report) = 1) =>
        /\ report[1].time_range = resolve_time_range(call[1])
        /\ report[1].total_traces = Len(features)
        /\ \A i \in 1..Len(features) : ~OutsideTimeRange(features[i].trace_id)
        /\ \A i \in 1..Len(report[1].top_slices) :
               \A j \in 1..Len(report[1].top_slices[i].trace_ids) :
                   ~OutsideTimeRange(report[1].top_slices[i].trace_ids[j])
        /\ \A i \in 1..Len(report[1].clusters) :
               \A j \in 1..Len(report[1].clusters[i].example_trace_ids) :
                   ~OutsideTimeRange(report[1].clusters[i].example_trace_ids[j])

====
